---------------------------- MODULE Spec2Model ----------------------------
(***************************************************************************)
(* dupefiles-go: the persistent file index (in-memory map + SQLite store)  *)
(* and the duplicate scanner (size -> hash -> binary comparison).          *)
(*                                                                         *)
(* Strings that the program inspects character by character (paths,       *)
(* identities) are sequences of one-character strings; file contents are  *)
(* sequences of bytes.  Every handler of the program is one action.       *)
(***************************************************************************)
EXTENDS Integers, Sequences, FiniteSets, TLC

VARIABLES
    fs,        \* the filesystem: absolute clean path -> [data, mtime]
    files,     \* Index.files: guid -> FileItem (the in-memory map)
    dbFiles,   \* table files of the store: a set of rows
    dbDups,    \* table duplicates of the store: a set of rows
    config,    \* the resolved Config the Index was built with
    results,   \* what the last ScanForDuplicates returned
    last,      \* the last completed operation and how it ended
    clock,     \* time.Now().Unix(), one instant for the whole of a run
    faults,    \* store failures the environment may still inject
    drift,     \* filesystem changes the environment may still make
    moves,     \* runs of "move duplicates" still allowed
    steps,     \* commands the run may still issue
    scan       \* the goroutines, channels and locals of a running scan

vars == <<fs, files, dbFiles, dbDups, config, results, last, clock, faults, drift, moves,
          steps, scan>>

-----------------------------------------------------------------------------
(* Bounds of the model. *)

MaxLen == 2        \* longest file content, in bytes
MaxMtime == 2      \* modification times are 1..MaxMtime
MaxFaults == 1     \* store failures injected in one run
MaxDrift == 1      \* filesystem changes made behind the index in one run
MaxMoves == 1      \* runs of "move duplicates" in one run
MaxSteps == 3      \* commands issued in one run of the full specification

Bytes == {0, 1}

RECURSIVE SeqsUpTo(_, _)
SeqsUpTo(S, n) ==
    IF n = 0 THEN {<<>>}
    ELSE LET shorter == SeqsUpTo(S, n - 1)
         IN  shorter \cup {Append(s, b) : s \in {t \in shorter : Len(t) = n - 1}, b \in S}

Contents == SeqsUpTo(Bytes, MaxLen)
Mtimes == 1..MaxMtime

-----------------------------------------------------------------------------
(* Paths.  filepath.Clean, filepath.Join, filepath.Base as Go defines them *)
(* on Unix; the program calls them and never builds identities otherwise.  *)

Sep == "/"

RECURSIVE SplitPath(_)
SplitPath(p) ==
    IF p = <<>> THEN << <<>> >>
    ELSE LET rest == SplitPath(Tail(p))
         IN  IF Head(p) = Sep
             THEN << <<>> >> \o rest
             ELSE << <<Head(p)>> \o Head(rest) >> \o Tail(rest)

RECURSIVE CleanStack(_, _, _)
CleanStack(segs, stack, rooted) ==
    IF segs = <<>> THEN stack
    ELSE LET s == Head(segs)
             n == Len(stack)
         IN  IF s = <<>> \/ s = <<".">>
             THEN CleanStack(Tail(segs), stack, rooted)
             ELSE IF s = <<".", ".">>
             THEN IF n > 0 /\ stack[n] # <<".", ".">>
                  THEN CleanStack(Tail(segs), SubSeq(stack, 1, n - 1), rooted)
                  ELSE IF rooted
                       THEN CleanStack(Tail(segs), stack, rooted)
                       ELSE CleanStack(Tail(segs), Append(stack, s), rooted)
             ELSE CleanStack(Tail(segs), Append(stack, s), rooted)

RECURSIVE JoinSegs(_)
JoinSegs(segs) ==
    IF segs = <<>> THEN <<>>
    ELSE IF Len(segs) = 1 THEN Head(segs)
    ELSE Head(segs) \o <<Sep>> \o JoinSegs(Tail(segs))

IsRooted(p) == p # <<>> /\ p[1] = Sep

(* filepath.Clean, by its rules: empty segments and "." are dropped, ".."  *)
(* removes the segment before it, a rooted path keeps its root.            *)
Lexical(p) ==
    IF p = <<>> THEN <<".">>
    ELSE LET body == JoinSegs(CleanStack(SplitPath(p), <<>>, IsRooted(p)))
         IN  IF IsRooted(p) THEN <<Sep>> \o body
             ELSE IF body = <<>> THEN <<".">> ELSE body

(* The paths named most often, cleaned once. *)
Frequent ==
    { <<"/">>, <<"/", "d">>, <<"/", "d", "/", "s">>, <<"/", "t">>, <<"x">>,
      <<"/", "d", "/", "x">>, <<"/", "d", "/", "y">>,
      <<"/", "d", "/", "s", "/", "x">>, <<"/", "d", "/", "s", "/", "y">>,
      <<"/", "t", "/", "x">>, <<"/", "t", "/", "y">> }

RECURSIVE Tabulate(_)
Tabulate(S) ==
    IF S = {} THEN <<>>
    ELSE LET p == CHOOSE q \in S : TRUE
         IN  (p :> Lexical(p)) @@ Tabulate(S \ {p})

Cleaned == Tabulate(Frequent)

Clean(p) == IF p \in Frequent THEN Cleaned[p] ELSE Lexical(p)

Join(dir, name) == Clean(dir \o <<Sep>> \o name)

Base(p) ==
    LET segs == SelectSeq(SplitPath(p), LAMBDA s : s # <<>>)
    IN  IF p = <<>> THEN <<".">>
        ELSE IF segs = <<>> THEN <<Sep>>
        ELSE segs[Len(segs)]

(* The working directory of the process, and the file a path names for the *)
(* operating system (os.Stat, os.Open): relative paths start at Cwd.       *)
Cwd == <<"/", "d">>

Resolve(p) == IF IsRooted(p) THEN Clean(p) ELSE Clean(Cwd \o <<Sep>> \o p)

(* Directories of the filesystem; the environment never removes them. *)
Dirs == { <<"/">>, <<"/", "d">>, <<"/", "d", "/", "s">>, <<"/", "t">> }

IsPrefix(s, t) == Len(s) <= Len(t) /\ SubSeq(t, 1, Len(s)) = s

(* strings.HasPrefix(path, dir + separator) *)
Beneath(dir, p) == IsPrefix(dir \o <<Sep>>, p)

(* os.Stat *)
FileExists(p) == Resolve(p) \in DOMAIN fs
DirExists(p) == Resolve(p) \in Dirs
StatSize(p) == Len(fs[Resolve(p)].data)
StatModTime(p) == fs[Resolve(p)].mtime


-----------------------------------------------------------------------------
(* Hashing primitives (FileUtils.go).  A digest is a function of the whole *)
(* content.  MD5 is not injective: one pair of equal-length contents is    *)
(* given the same MD5 sum; SHA-256 has no collision among the contents of  *)
(* the model.  A hash string is <<algorithm, digest>>; "" is <<>>.         *)

(* SizeThreshold is 2 GiB = 2097152 KiB; a byte count is compared with it  *)
(* as (whole KiB, remaining bytes), which keeps every number within the    *)
(* range of the checker's integers.                                        *)
KiB == 1024
SizeThresholdKiB == 2097152

ExceedsThreshold(kib, rem) ==
    kib > SizeThresholdKiB \/ (kib = SizeThresholdKiB /\ rem > 0)

Md5Sum(data) == IF data = <<1, 0>> THEN <<0, 1>> ELSE data

CalculateFileHashMD5(filePath) ==
    IF ~FileExists(filePath)
    THEN [hash |-> <<>>, err |-> TRUE]
    ELSE [hash |-> <<"md5", Md5Sum(fs[Resolve(filePath)].data)>>, err |-> FALSE]

CalculateFileHashSHA256(filePath) ==
    IF ~FileExists(filePath)
    THEN [hash |-> <<>>, err |-> TRUE]
    ELSE [hash |-> <<"sha256", fs[Resolve(filePath)].data>>, err |-> FALSE]

CalculateFileHash(filePath, fileSize) ==
    IF ExceedsThreshold(fileSize \div KiB, fileSize % KiB)
    THEN CalculateFileHashSHA256(filePath)
    ELSE CalculateFileHashMD5(filePath)

(* sql.NullString *)
NullString(str, valid) == [String |-> str, Valid |-> valid]
NoHash == NullString(<<>>, FALSE)

-----------------------------------------------------------------------------
(* Binary comparison as the scanner calls it (FileUtils.go, lines 97-169): *)
(* sampleSize positions are drawn at random and only the bytes at those    *)
(* positions are compared.  positions is the sequence the generator drew.  *)

Min(a, b) == IF a < b THEN a ELSE b

(* The sequences rng.Int63n(fileSize) can produce for a sample of n. *)
PositionChoices(fileSize, sampleSize) ==
    [1..Min(sampleSize, fileSize) -> 0..(fileSize - 1)]

compareFilesBinarySampleSize(filePathA, filePathB, sampleSize, positions) ==
    IF ~FileExists(filePathA) \/ ~FileExists(filePathB)
    THEN [identical |-> FALSE, err |-> TRUE]
    ELSE LET a == fs[Resolve(filePathA)].data
             b == fs[Resolve(filePathB)].data
         IN  IF Len(a) # Len(b) THEN [identical |-> FALSE, err |-> FALSE]
             ELSE IF Len(a) = 0 THEN [identical |-> TRUE, err |-> FALSE]
             ELSE [identical |-> \A i \in DOMAIN positions :
                                     a[positions[i] + 1] = b[positions[i] + 1],
                   err |-> FALSE]

(* The verdicts one comparison can give, over every draw of positions.    *)
(* An error counts as "not confirmed" (scanner.go, lines 284-287).         *)
Verdicts(filePathA, filePathB, sampleSize) ==
    IF ~FileExists(filePathA) \/ ~FileExists(filePathB) THEN {FALSE}
    ELSE { LET r == compareFilesBinarySampleSize(filePathA, filePathB, sampleSize, pos)
           IN  r.identical /\ ~r.err :
           pos \in PositionChoices(StatSize(filePathA), sampleSize) }

-----------------------------------------------------------------------------
(* Records of the catalog. *)

(* FileItem; Extension and HumanizedSize are functions of Path and Size    *)
(* that no operation reads back, and are left out.                         *)
FileItem(guid, path, size, modTime, hash) ==
    [Guid |-> guid, Path |-> path, Size |-> size, ModTime |-> modTime, Hash |-> hash]

(* A row of table files has the columns of a FileItem. *)
RowOf(file) == file

(* The store: guid is the PRIMARY KEY of both tables.  Each operator is   *)
(* one prepared statement executed once for every row of a batch.          *)

(* A plain INSERT INTO a table that has no key. *)
InsertKeyless(rows, new) == rows \cup new

(* INSERT OR REPLACE INTO files: new is a set of rows of distinct guids. *)
InsertOrReplace(rows, new) ==
    {r \in rows : \A n \in new : n.Guid # r.Guid} \cup new

(* A DELETE that matches no row. *)
DeleteNone(rows, guids) == rows

(* DELETE FROM files WHERE guid = ? *)
DeleteGuid(rows, guids) == {r \in rows : r.Guid \notin guids}

(* UPDATE files SET hash = ? WHERE guid = ?; hashes maps guid to hash. *)
UpdateHash(rows, hashes) ==
    {IF r.Guid \in DOMAIN hashes THEN [r EXCEPT !.Hash = hashes[r.Guid]] ELSE r : r \in rows}

(* UPDATE files SET size = ?, hash = ?, mod_time = ? WHERE guid = ?;       *)
(* marked maps guid to the refreshed FileItem.                             *)
UpdateSizeHashModTime(rows, marked) ==
    {IF r.Guid \in DOMAIN marked
     THEN [r EXCEPT !.Size = marked[r.Guid].Size, !.Hash = marked[r.Guid].Hash,
                    !.ModTime = marked[r.Guid].ModTime]
     ELSE r : r \in rows}

(* INSERT OR REPLACE INTO duplicates (guid, scanned) *)
UpsertDuplicate(rows, guids, now) ==
    {r \in rows : r.guid \notin guids} \cup {[guid |-> g, scanned |-> now] : g \in guids}

(* loadFilesFromDB: the map built from the rows of table files. *)
LoadFiles(rows) ==
    [g \in {r.Guid : r \in rows} |-> CHOOSE r \in rows : r.Guid = g]

-----------------------------------------------------------------------------
(* Failures of the store.  A batched operation begins a transaction,       *)
(* prepares one statement, executes it once per row and commits; the       *)
(* environment may make one of these steps fail.  kind is one of "none",   *)
(* "begin", "prepare", "exec", "commit"; an "exec" failure hits the        *)
(* statement of one row (guid) of transaction tx of the operation.         *)

NoFault == [kind |-> "none", tx |-> 0, guid |-> <<>>]

FaultChoices(rowsByTx) ==
    {NoFault} \cup
    IF faults = 0 THEN {}
    ELSE UNION { {[kind |-> k, tx |-> t, guid |-> <<>>] : k \in {"begin", "prepare", "commit"}}
                 \cup {[kind |-> "exec", tx |-> t, guid |-> g] : g \in rowsByTx[t]}
                 : t \in {u \in DOMAIN rowsByTx : rowsByTx[u] # {}} }

Spend(fault) == IF fault.kind = "none" THEN faults ELSE faults - 1

(* The transaction tx of an operation fails as a whole under this fault. *)
TxFails(fault, tx) == fault.tx = tx /\ fault.kind \in {"begin", "prepare", "commit"}

(* The statement for row guid of transaction tx fails under this fault. *)
ExecFails(fault, tx, guid) == fault.tx = tx /\ fault.kind = "exec" /\ fault.guid = guid

(* What is remembered of the last completed operation: its name, whether  *)
(* it returned an error, the count it returned, the failure injected.     *)
Done(op, err, count, fault) == [op |-> op, err |-> err, count |-> count, fault |-> fault]


-----------------------------------------------------------------------------
(* Maps. *)

Put(f, k, v) == [x \in DOMAIN f \cup {k} |-> IF x = k THEN v ELSE f[x]]
Drop(f, K) == [x \in DOMAIN f \ K |-> f[x]]
Override(f, g) == [x \in DOMAIN f \cup DOMAIN g |-> IF x \in DOMAIN g THEN g[x] ELSE f[x]]

Guids == DOMAIN files

-----------------------------------------------------------------------------
(* The environment: files change behind the index, time passes. *)

(* Places where the environment creates, rewrites and deletes files. *)
Locs == { <<"/", "d", "/", "x">>, <<"/", "d", "/", "s", "/", "x">> }

FsWrite(p, data, mtime) ==
    /\ drift > 0
    /\ IF p \in DOMAIN fs THEN fs[p] # [data |-> data, mtime |-> mtime] ELSE TRUE
    /\ fs' = Put(fs, p, [data |-> data, mtime |-> mtime])
    /\ drift' = drift - 1
    /\ last' = Done("FsWrite", FALSE, 0, NoFault)
    /\ UNCHANGED <<files, dbFiles, dbDups, config, results, clock, faults, moves>>

FsRemove(p) ==
    /\ drift > 0
    /\ p \in DOMAIN fs
    /\ fs' = Drop(fs, {p})
    /\ drift' = drift - 1
    /\ last' = Done("FsRemove", FALSE, 0, NoFault)
    /\ UNCHANGED <<files, dbFiles, dbDups, config, results, clock, faults, moves>>

-----------------------------------------------------------------------------
(* Index (scanner.go, lines 341-932). *)

(* NewIndex on an existing store: loadFilesFromDB fills the map. *)
Open ==
    /\ files' = LoadFiles(dbFiles)
    /\ results' = {}
    /\ last' = Done("Open", FALSE, 0, NoFault)
    /\ UNCHANGED <<fs, dbFiles, dbDups, config, clock, faults, drift, moves>>

(* No size filter. *)
NeverBelowMinimum(size) == FALSE

(* The size filter of AddFile and of the walk. *)
BelowMinimum(size) == config.MinFileSize > 0 /\ size < config.MinFileSize

(* A check that never finds a file unchanged. *)
NeverUnchanged(guid, size, modTime) == FALSE

(* "Skip if path, size, and modTime match" *)
Unchanged(guid, size, modTime) ==
    guid \in Guids /\ files[guid].Size = size /\ files[guid].ModTime = modTime

NewFileItem(path) ==
    FileItem(Clean(path), path, StatSize(path), StatModTime(path), NoHash)

AddFile(path, fault) ==
    IF ~FileExists(path) \/ BelowMinimum(StatSize(path))
       \/ Unchanged(Clean(path), StatSize(path), StatModTime(path))
    THEN /\ fault = NoFault
         /\ last' = Done("AddFile", ~FileExists(path) /\ ~DirExists(path), 0, NoFault)
         /\ UNCHANGED <<fs, files, dbFiles, dbDups, config, results, clock, faults, drift, moves>>
    ELSE /\ fault.kind \in {"none", "exec"}
         /\ files' = Put(files, Clean(path), NewFileItem(path))
         /\ dbFiles' = IF fault.kind = "exec" THEN dbFiles
                       ELSE InsertOrReplace(dbFiles, {RowOf(NewFileItem(path))})
         /\ faults' = Spend(fault)
         /\ last' = Done("AddFile", fault.kind = "exec", 0, fault)
         /\ UNCHANGED <<fs, dbDups, config, results, clock, drift, moves>>

(* filepath.Match for the filters used here: literal characters, and an    *)
(* unterminated "[", which is ErrBadPattern for every name.                *)
Match(pattern, name) ==
    IF \E i \in DOMAIN pattern : pattern[i] = "["
    THEN [matched |-> FALSE, err |-> TRUE]
    ELSE [matched |-> pattern = name, err |-> FALSE]

(* The files filepath.Walk(dirPath) hands to walkFunc, each under the path *)
(* Walk builds for it; subdirectories are entered only when recursive.     *)
WalkFiles(dirPath, recursive) ==
    LET root == Resolve(dirPath)
        rel(p) == SubSeq(p, Len(root) + 2, Len(p))
    IN  { Join(dirPath, rel(p)) :
          p \in {q \in DOMAIN fs : /\ Beneath(root, q)
                                   /\ recursive \/ Len(SplitPath(rel(q))) = 1} }

(* The files of the walk for which walkFunc builds a FileItem. *)
Accepted(dirPath, recursive, filter) ==
    { p \in WalkFiles(dirPath, recursive) :
        /\ filter = <<>> \/ Match(filter, Base(p)).matched
        /\ ~BelowMinimum(StatSize(p))
        /\ ~Unchanged(Clean(p), StatSize(p), StatModTime(p)) }

AddDirectory(dirPath, recursive, filter, fault) ==
    LET acc == Accepted(dirPath, recursive, filter)
        items == [g \in {Clean(p) : p \in acc} |->
                    NewFileItem(CHOOSE p \in acc : Clean(p) = g)]
        badFilter == /\ filter # <<>>
                     /\ \E p \in WalkFiles(dirPath, recursive) : Match(filter, Base(p)).err
        stored == {g \in DOMAIN items : ~ExecFails(fault, 1, g)}
    IN  /\ DirExists(dirPath)
        /\ fault \in FaultChoices([t \in {1} |-> IF badFilter THEN {} ELSE DOMAIN items])
        /\ IF fault.kind \in {"begin", "prepare"} \/ badFilter
           THEN /\ fault.kind \in {"none", "begin", "prepare"}
                /\ UNCHANGED <<files, dbFiles>>
           ELSE /\ files' = Override(files, items)
                /\ dbFiles' = IF fault.kind = "commit" THEN dbFiles
                              ELSE InsertOrReplace(dbFiles, {RowOf(items[g]) : g \in stored})
        /\ faults' = Spend(fault)
        /\ last' = Done("AddDirectory",
                        fault.kind \in {"begin", "prepare", "commit"} \/ badFilter, 0, fault)
        /\ UNCHANGED <<fs, dbDups, config, results, clock, drift, moves>>

(* App.AddPath (app.go, lines 390-424): a directory is walked, anything    *)
(* else is added as one file.                                              *)
AddPath(path, recursive, filter) ==
    /\ path # <<>>
    /\ FileExists(path) \/ DirExists(path)
    /\ IF DirExists(path)
       THEN \E fault \in FaultChoices([t \in {1} |-> {Clean(p) : p \in WalkFiles(path, recursive)}]) :
                AddDirectory(path, recursive, filter, fault)
       ELSE \E fault \in FaultChoices([t \in {1} |-> {Clean(path)}]) :
                AddFile(path, fault)


(* os.Stat(file.Path) does not report "not exist" *)
PathExists(p) == FileExists(p) \/ DirExists(p)

Missing == {g \in Guids : ~PathExists(files[g].Path)}

Purge(fault) ==
    IF Missing = {}
    THEN /\ fault = NoFault
         /\ last' = Done("Purge", FALSE, 0, NoFault)
         /\ UNCHANGED <<fs, files, dbFiles, dbDups, config, results, clock, faults, drift, moves>>
    ELSE LET deleted == {g \in Missing : ~ExecFails(fault, 1, g)}
         IN  /\ fault \in FaultChoices([t \in {1} |-> Missing])
             /\ IF fault.kind \in {"begin", "prepare"}
                THEN UNCHANGED <<files, dbFiles>>
                ELSE /\ files' = Drop(files, Missing)
                     /\ dbFiles' = IF fault.kind = "commit" THEN dbFiles
                                   ELSE DeleteGuid(dbFiles, deleted)
             /\ faults' = Spend(fault)
             /\ last' = IF TxFails(fault, 1) THEN Done("Purge", TRUE, 0, fault)
                        ELSE Done("Purge", FALSE, Cardinality(deleted), fault)
             /\ UNCHANGED <<fs, dbDups, config, results, clock, drift, moves>>

(* Update: the records whose file is there with another size or time. *)
Drifted ==
    {g \in Guids : /\ FileExists(files[g].Path)
                   /\ \/ StatSize(files[g].Path) # files[g].Size
                      \/ StatModTime(files[g].Path) # files[g].ModTime}

(* No refresh at all. *)
NotRefreshed(file) == file

(* A refresh of size and time that keeps the hash the record had. *)
RefreshedKeepingHash(file) ==
    [file EXCEPT !.Size = StatSize(file.Path), !.ModTime = StatModTime(file.Path)]

Refreshed(file) ==
    LET size == StatSize(file.Path)
        h == CalculateFileHash(file.Path, size)
    IN  [file EXCEPT !.Size = size,
                     !.ModTime = StatModTime(file.Path),
                     !.Hash = IF h.err THEN NoHash ELSE NullString(h.hash, TRUE)]

Update(fault) ==
    LET marked == [g \in Drifted |-> Refreshed(files[g])]
        started == (IF Missing # {} THEN {1} ELSE {})
                   \cup (IF Drifted # {} THEN {2} ELSE {})
        rowsOf == [t \in started |-> IF t = 1 THEN Missing ELSE Drifted]
        deleted == {g \in Missing : ~ExecFails(fault, 1, g)}
        updated == {g \in Drifted : ~ExecFails(fault, 2, g)}
        afterDelete == IF TxFails(fault, 1) THEN dbFiles
                       ELSE DeleteGuid(dbFiles, deleted)
    IN  /\ fault \in FaultChoices(rowsOf)
        /\ files' = IF fault.tx = 1 /\ fault.kind \in {"begin", "prepare"}
                    THEN Override(files, marked)
                    ELSE Drop(Override(files, marked), Missing)
        /\ dbFiles' = IF TxFails(fault, 1) \/ TxFails(fault, 2) THEN afterDelete
                      ELSE UpdateSizeHashModTime(afterDelete, [g \in updated |-> marked[g]])
        /\ faults' = Spend(fault)
        /\ last' = Done("Update", TxFails(fault, 1) \/ TxFails(fault, 2),
                        IF TxFails(fault, 1) THEN Cardinality(Drifted)
                        ELSE Cardinality(Drifted) + Cardinality(Missing),
                        fault)
        /\ UNCHANGED <<fs, dbDups, config, results, clock, drift, moves>>

DuplicateGuids == {d.guid : d \in dbDups}

(* DELETE from files WHERE guid IN (SELECT guid FROM duplicates) *)
ForgetDuplicates(fault) ==
    /\ fault.kind \in {"none", "exec"}
    /\ fault \in FaultChoices([t \in {1} |-> {<<>>}])
    /\ dbFiles' = IF fault.kind = "exec" THEN dbFiles
                  ELSE {r \in dbFiles : r.Guid \notin DuplicateGuids}
    /\ faults' = Spend(fault)
    /\ last' = Done("ForgetDuplicates", fault.kind = "exec", 0, fault)
    /\ UNCHANGED <<fs, files, dbDups, config, results, clock, drift, moves>>

(* UPDATE files SET hash = NULL WHERE hash IS NOT NULL *)
ForgetHashes(fault) ==
    /\ fault.kind \in {"none", "exec"}
    /\ fault \in FaultChoices([t \in {1} |-> {<<>>}])
    /\ dbFiles' = IF fault.kind = "exec" THEN dbFiles
                  ELSE {[r EXCEPT !.Hash = NoHash] : r \in dbFiles}
    /\ faults' = Spend(fault)
    /\ last' = Done("ForgetHashes", fault.kind = "exec", 0, fault)
    /\ UNCHANGED <<fs, files, dbDups, config, results, clock, drift, moves>>


-----------------------------------------------------------------------------
(* Facade operations that work on the store and the map directly (app.go). *)

(* ASCII case folding of LIKE, for the letters paths are written with. *)
Lower(c) ==
    CASE c = "D" -> "d"
      [] c = "S" -> "s"
      [] c = "T" -> "t"
      [] c = "X" -> "x"
      [] c = "Y" -> "y"
      [] OTHER -> c

(* SQLite's LIKE: % is any run of characters, _ any one character, and     *)
(* letters match without regard to case.                                   *)
RECURSIVE Like(_, _)
Like(pattern, str) ==
    IF pattern = <<>> THEN str = <<>>
    ELSE IF Head(pattern) = "%"
    THEN Like(Tail(pattern), str) \/ (str # <<>> /\ Like(pattern, Tail(str)))
    ELSE IF str = <<>> THEN FALSE
    ELSE IF Head(pattern) = "_" THEN Like(Tail(pattern), Tail(str))
    ELSE Lower(Head(pattern)) = Lower(Head(str)) /\ Like(Tail(pattern), Tail(str))

(* DELETE FROM files WHERE path = ? OR path LIKE ? *)
RemoveMatchesRow(normalizedPath, row) ==
    row.Path = normalizedPath \/ Like(normalizedPath \o <<Sep, "%">>, row.Path)

(* file.Path == normalizedPath || strings.HasPrefix(file.Path, ...) *)
RemoveMatchesFile(normalizedPath, file) ==
    file.Path = normalizedPath \/ Beneath(normalizedPath, file.Path)

(* A facade operation that fails leaves through os.Exit(1): its open       *)
(* transaction is rolled back and the map has not been touched yet.        *)
RemovePathFromIndex(path, fault) ==
    LET normalizedPath == Clean(path)
        gone == {r \in dbFiles : RemoveMatchesRow(normalizedPath, r)}
    IN  /\ path # <<>>
        /\ fault \in FaultChoices([t \in {1} |-> {<<>>}])
        /\ IF fault = NoFault
           THEN /\ dbFiles' = dbFiles \ gone
                /\ files' = Drop(files, {g \in Guids : RemoveMatchesFile(normalizedPath, files[g])})
           ELSE UNCHANGED <<files, dbFiles>>
        /\ faults' = Spend(fault)
        /\ last' = Done("Remove", fault # NoFault,
                        IF fault = NoFault THEN Cardinality(gone) ELSE 0, fault)
        /\ UNCHANGED <<fs, dbDups, config, results, clock, drift, moves>>

(* DELETE FROM files; table duplicates is left as it is. *)
ClearIndex(fault) ==
    /\ fault \in FaultChoices([t \in {1} |-> {<<>>}])
    /\ IF fault = NoFault
       THEN /\ dbFiles' = {}
            /\ files' = Drop(files, Guids)
       ELSE UNCHANGED <<files, dbFiles>>
    /\ faults' = Spend(fault)
    /\ last' = Done("Clear", fault # NoFault,
                    IF fault = NoFault THEN Cardinality(dbFiles) ELSE 0, fault)
    /\ UNCHANGED <<fs, dbDups, config, results, clock, drift, moves>>


(* Byte order of the characters identities are written with (SQLite       *)
(* compares TEXT with memcmp).                                             *)
Code(c) ==
    CASE c = "%" -> 37 [] c = "." -> 46 [] c = "/" -> 47
      [] c = "1" -> 49 [] c = "2" -> 50 [] c = "3" -> 51 [] c = "4" -> 52
      [] c = "D" -> 68 [] c = "S" -> 83 [] c = "T" -> 84 [] c = "X" -> 88
      [] c = "Y" -> 89 [] c = "[" -> 91 [] c = "_" -> 95
      [] c = "d" -> 100 [] c = "s" -> 115 [] c = "t" -> 116
      [] c = "x" -> 120 [] c = "y" -> 121

RECURSIVE StrLess(_, _)
StrLess(a, b) ==
    IF b = <<>> THEN FALSE
    ELSE IF a = <<>> THEN TRUE
    ELSE IF Head(a) = Head(b) THEN StrLess(Tail(a), Tail(b))
    ELSE Code(Head(a)) < Code(Head(b))

(* SELECT MIN(guid) ... GROUP BY size, hash over files joined with         *)
(* duplicates, and the joined rows that are not such a minimum.            *)
JoinedDuplicates == {r \in dbFiles : r.Guid \in DuplicateGuids}

(* GetAllDupes: the rows of files that have a membership row. *)
GetAllDupes == JoinedDuplicates

(* A query that leaves no row out. *)
EveryJoinedRow == JoinedDuplicates

GetRestOfDuplicates ==
    LET joined == JoinedDuplicates
    IN  {r \in joined : \E q \in joined : /\ q.Size = r.Size /\ q.Hash = r.Hash
                                          /\ StrLess(q.Guid, r.Guid)}

(* The orders in which the members of a set can be listed. *)
RECURSIVE Perms(_)
Perms(S) ==
    IF S = {} THEN {<<>>}
    ELSE UNION { {<<x>> \o f : f \in Perms(S \ {x})} : x \in S }

(* ORDER BY size DESC, hash: larger files first, equal hashes adjacent. *)
RestOrders ==
    {f \in Perms(GetRestOfDuplicates) :
        \A i, j \in DOMAIN f : i < j =>
            /\ f[i].Size >= f[j].Size
            /\ f[i].Size = f[j].Size /\ f[i].Hash = f[j].Hash
               => \A k \in i..j : f[k].Hash = f[i].Hash}

ExistsIn(disk, p) == Resolve(p) \in DOMAIN disk \/ Resolve(p) \in Dirs

(* filepath.Ext: the suffix of the name from its last dot. *)
Ext(name) ==
    LET dots == {i \in DOMAIN name : name[i] = "."}
    IN  IF dots = {} THEN <<>>
        ELSE SubSeq(name, CHOOSE i \in dots : \A j \in dots : j <= i, Len(name))

(* "%s_%d%s" with time.Now().UnixNano(): a name that no file carries yet;  *)
(* the nanosecond clock does not repeat.                                   *)
Stamps == <<"1", "2", "3", "4">>

UniqueName(disk, dir, baseFileName) ==
    LET ext == Ext(baseFileName)
        name == SubSeq(baseFileName, 1, Len(baseFileName) - Len(ext))
        named(i) == Join(dir, name \o <<"_", Stamps[i]>> \o ext)
        free == {i \in DOMAIN Stamps : ~ExistsIn(disk, named(i))}
    IN  named(CHOOSE i \in free : \A j \in free : i <= j)

(* UPDATE files SET path = ?, guid = ? WHERE guid = ?; the PRIMARY KEY     *)
(* refuses a guid that another row holds.                                  *)
UpdatePathGuid(rows, path, guid, oldGuid) ==
    IF /\ \E r \in rows : r.Guid = oldGuid
       /\ \E r \in rows : r.Guid = guid /\ r.Guid # oldGuid
    THEN [rows |-> rows, err |-> TRUE]
    ELSE [rows |-> {IF r.Guid = oldGuid THEN [r EXCEPT !.Path = path, !.Guid = guid] ELSE r
                    : r \in rows},
          err |-> FALSE]

(* One turn of the loop of MoveDuplicateFilesToDirectory (app.go, lines    *)
(* 511-561) on the state st = [disk, rows, map, moved].                    *)
MoveOne(st, path, file, fault) ==
    LET joined == Join(path, Base(file.Path))
        destPath == IF ExistsIn(st.disk, joined)
                    THEN UniqueName(st.disk, path, Base(file.Path))
                    ELSE joined
        src == Resolve(file.Path)
        moved == [file EXCEPT !.Path = destPath, !.Guid = Clean(destPath)]
        upd == IF ExecFails(fault, 1, file.Guid)
               THEN [rows |-> st.rows, err |-> TRUE]
               ELSE UpdatePathGuid(st.rows, moved.Path, moved.Guid, file.Guid)
    IN  IF config.DryRun \/ src \notin DOMAIN st.disk
        THEN st
        ELSE [disk |-> Put(Drop(st.disk, {src}), Resolve(destPath), st.disk[src]),
              rows |-> upd.rows,
              map |-> Put(Drop(st.map, {file.Guid}), moved.Guid, moved),
              moved |-> st.moved + 1]

RECURSIVE MoveAll(_, _, _, _)
MoveAll(st, path, order, fault) ==
    IF order = <<>> THEN st
    ELSE CHOOSE end \in {MoveAll(next, path, Tail(order), fault) :
                         next \in {MoveOne(st, path, Head(order), fault)}} : TRUE

MoveDuplicateFilesToDirectory(path, order, fault) ==
    /\ path # <<>>
    /\ DirExists(path)
    /\ moves > 0
    /\ order \in RestOrders
    /\ fault.kind \in {"none", "exec"}
    /\ fault \in FaultChoices([t \in {1} |-> {r.Guid : r \in GetRestOfDuplicates}])
    /\ \E st \in {MoveAll([disk |-> fs, rows |-> dbFiles, map |-> files, moved |-> 0],
                           path, order, fault)} :
          /\ fs' = st.disk
          /\ dbFiles' = st.rows
          /\ files' = st.map
          /\ last' = Done("Move", FALSE, st.moved, fault)
    /\ moves' = moves - 1
    /\ faults' = Spend(fault)
    /\ UNCHANGED <<dbDups, config, results, clock, drift>>


-----------------------------------------------------------------------------
(* Scanner (scanner.go, lines 1-339). *)

(* No scan is running on a machine of numCPU processors: no goroutine, no  *)
(* channel, the locals of ScanForDuplicates empty.                         *)
Idle(numCPU) ==
    [numCPU |-> numCPU,
     pc |-> "idle",              \* where ScanForDuplicates stands
     sizeGroups |-> {},          \* sizes the loop of line 114 has not visited
     filesToHash |-> <<>>,       \* jobs not yet sent to jobsChan
     numJobs |-> 0,
     jobsChan |-> <<>>,
     jobsClosed |-> 0,           \* times close(jobsChan) ran
     hashResultsChan |-> <<>>,   \* resultsChan of calculateHashGroups
     hashResultsClosed |-> 0,
     taken |-> <<>>,             \* guid -> times a worker received the job
     yielded |-> <<>>,           \* guid -> results sent for the job
     hashed |-> <<>>,            \* guid -> calls of CalculateFileHash in this scan
     errors |-> {},              \* guids whose CalculateFileHash failed in this scan
     failed |-> FALSE,           \* a call of CalculateFileHash of this run failed
     scans |-> 0,                \* scans started in this run
     workers |-> <<>>,           \* the worker pool of the current size group
     finalHashGroups |-> <<>>,   \* hash -> slice of guids, as a function
     allHashesToUpdate |-> <<>>,
     wroteBack |-> FALSE,        \* updateHashesInIndex has returned
     pending |-> {},             \* buckets the loop of line 58 has not visited
     verifiers |-> <<>>,         \* hash -> goroutine of lines 64-76
     semaphore |-> 0,            \* tokens in the semaphore channel
     resultsChan |-> <<>>,
     resultsClosed |-> 0,
     results |-> <<>>]           \* the local results of ScanForDuplicates

(* ResultList *)
ResultList(hashSum, fileGuids) == [HashSum |-> hashSum, FileGuids |-> fileGuids]

(* ScanBySize: the records of one size. *)
SizeGroup(size) == {g \in Guids : files[g].Size = size}

(* Every record is a candidate, whatever its size group. *)
EveryRecord == Guids

(* calculateHashGroups looks only at size groups of two or more. *)
Candidates ==
    UNION { SizeGroup(size) :
            size \in {s \in {files[g].Size : g \in Guids} : Cardinality(SizeGroup(s)) >= 2} }

(* "create list of files to create hash sums" *)
FilesToHash == {g \in Candidates : ~files[g].Hash.Valid}

(* What a worker sends for one job. *)
HashCalcResult(g) ==
    IF files[g].Hash.Valid /\ files[g].Hash.String # <<>>
    THEN [hash |-> files[g].Hash.String, err |-> FALSE]
    ELSE CalculateFileHash(files[g].Path, files[g].Size)

(* The jobs whose result carries no error: their hash is set on the record *)
(* and queued for the store.                                               *)
HashesToUpdate == {g \in FilesToHash : ~HashCalcResult(g).err}

(* A scan that computes the hashes and leaves the records as they were. *)
FilesNotUpdated == files

FilesAfterHashing ==
    LET hashed == HashesToUpdate
    IN  [g \in Guids |-> IF g \in hashed
                         THEN [files[g] EXCEPT !.Hash = NullString(HashCalcResult(g).hash, TRUE)]
                         ELSE files[g]]

(* finalHashGroups: the key under which a record is appended, the stored   *)
(* hash (line 131) or the one just computed (line 189).                    *)
BucketKey(g) ==
    IF files[g].Hash.Valid THEN files[g].Hash.String ELSE HashCalcResult(g).hash

(* The records appended to finalHashGroups. *)
Bucketed ==
    LET candidates == Candidates
    IN  {g \in candidates : files[g].Hash.Valid \/ ~HashCalcResult(g).err}

HashGroup(hash) == {g \in Bucketed : BucketKey(g) = hash}

(* The orders in which the members of a bucket can stand in its slice: the *)
(* size groups are visited one after the other (in map order); of one size *)
(* group the records with a stored hash are appended first (line 131),     *)
(* those hashed now after the pool has finished (line 189), each in any    *)
(* order.                                                                  *)
BucketOrders(hash) ==
    {f \in Perms(HashGroup(hash)) :
        \A i, j \in DOMAIN f : (i < j /\ files[f[i]].Size = files[f[j]].Size) =>
            /\ \A k \in i..j : files[f[k]].Size = files[f[i]].Size
            /\ ~files[f[i]].Hash.Valid => ~files[f[j]].Hash.Valid}

(* The members (after the first) that a run of the comparisons can         *)
(* confirm, over the random positions drawn, in the order of arrival.      *)
ConfirmedChoices(filesInHashGroup) ==
    LET anchor == filesInHashGroup[1]
        others == {filesInHashGroup[i] : i \in 2..Len(filesInHashGroup)}
        sets == {S \in SUBSET others :
                    \A m \in others :
                        (m \in S) \in Verdicts(files[anchor].Path, files[m].Path,
                                               config.BinaryCompareBytes)}
    IN  UNION {Perms(S) : S \in sets}

(* A verification that returns its list whatever its length. *)
AnchorAlone(hash, filesInHashGroup, confirmed) ==
    {ResultList(hash, <<filesInHashGroup[1]>> \o confirmed)}

(* findDuplicatesInHashGroup, given the confirmed members as they arrive:  *)
(* the set holding its ResultList, or the empty set for nil.               *)
findDuplicatesInHashGroup(hash, filesInHashGroup, confirmed) ==
    LET actualDuplicatesThisGroup == <<filesInHashGroup[1]>> \o confirmed
    IN  IF Len(filesInHashGroup) < 2 \/ Len(actualDuplicatesThisGroup) < 2
        THEN {}
        ELSE {ResultList(hash, actualDuplicatesThisGroup)}

(* Everything the verification of one bucket can return. *)
GroupChoices(hash) ==
    UNION { {findDuplicatesInHashGroup(hash, f, c) : c \in ConfirmedChoices(f)}
            : f \in BucketOrders(hash) }

(* The lists ScanForDuplicates can return: one choice for every bucket of  *)
(* two or more; the list is read from a channel, its order carries nothing.*)
RECURSIVE ResultChoices(_)
ResultChoices(hashes) ==
    IF hashes = {} THEN {{}}
    ELSE LET h == CHOOSE x \in hashes : TRUE
         IN  {r \cup g : r \in ResultChoices(hashes \ {h}), g \in GroupChoices(h)}

Buckets ==
    LET bucketed == Bucketed
    IN  {h \in {BucketKey(g) : g \in bucketed} :
            Cardinality({g \in bucketed : BucketKey(g) = h}) >= 2}

Range(f) == {f[i] : i \in DOMAIN f}

(* updateHashesInIndex: UPDATE files SET hash = ? WHERE guid = ? per row. *)
updateHashesInIndex(rows, fault) ==
    IF TxFails(fault, 1) THEN rows
    ELSE UpdateHash(rows, [g \in {h \in HashesToUpdate : ~ExecFails(fault, 1, h)} |->
                              NullString(HashCalcResult(g).hash, TRUE)])

(* addDuplicatesToIndex, called for every result: one transaction per     *)
(* result, rolled back as a whole when a step of it fails.                 *)
addDuplicatesToIndex(rows, found, fault) ==
    LET stored == {r \in found : ~(fault.tx = 2 /\ fault.guid \in Range(r.FileGuids))}
    IN  UpsertDuplicate(rows, UNION {Range(r.FileGuids) : r \in stored}, clock)

ScanFaults(found) ==
    {NoFault} \cup
    IF faults = 0 THEN {}
    ELSE FaultChoices([t \in {1} |-> HashesToUpdate]) \cup
         {[kind |-> k, tx |-> 2, guid |-> g] :
            k \in {"begin", "prepare", "exec", "commit"},
            g \in UNION {Range(r.FileGuids) : r \in found}}

ScanForDuplicates(found, fault) ==
    /\ found \in ResultChoices(Buckets)
    /\ fault \in ScanFaults(found)
    /\ files' = FilesAfterHashing
    /\ dbFiles' = updateHashesInIndex(dbFiles, fault)
    /\ dbDups' = addDuplicatesToIndex(dbDups, found, fault)
    /\ results' = found
    /\ faults' = Spend(fault)
    /\ last' = Done("Scan", FALSE, Cardinality(found), fault)
    /\ UNCHANGED <<fs, config, clock, drift, moves>>


-----------------------------------------------------------------------------
(* The specification: the index starts empty on a new store; the facade's  *)
(* commands and the environment's steps follow in any order.               *)

Config(minFileSize, binaryCompareBytes, dryRun) ==
    [MinFileSize |-> minFileSize, BinaryCompareBytes |-> binaryCompareBytes,
     DryRun |-> dryRun]

File(data, mtime) == [data |-> data, mtime |-> mtime]

PX == <<"/", "d", "/", "x">>
PY == <<"/", "d", "/", "y">>
PSX == <<"/", "d", "/", "s", "/", "x">>
PSY == <<"/", "d", "/", "s", "/", "y">>

InitWith(disks, configs) ==
    /\ fs \in disks
    /\ files = [g \in {} |-> NoHash]
    /\ dbFiles = {}
    /\ dbDups = {}
    /\ config \in configs
    /\ results = {}
    /\ last = Done("Open", FALSE, 0, NoFault)
    /\ clock = 0
    /\ faults = MaxFaults
    /\ drift = MaxDrift
    /\ moves = MaxMoves
    /\ steps = MaxSteps
    /\ scan = Idle(1)

InitDisks ==
    { [p \in {PX, PY} |-> File(<<0>>, 1)] }

Init == InitWith(InitDisks, {Config(1, 0, FALSE)})

AddDirs == { <<"/", "d">> }
AddFiles == { PX, <<"x">> }
Filters == { <<>>, <<"x">>, <<"[">> }
RemoveArgs == { <<"/", "d", "/", "s">>, <<"/", "d", "/", "S">>, PX }
MoveArgs == { <<"/", "t">> }
Edits == { <<>>, <<0>>, <<1>>, <<0, 0>> }

(* A command of a run that issues MaxSteps commands at most; a step that   *)
(* is not counted.                                                         *)
Counted(A) == steps > 0 /\ A /\ steps' = steps - 1 /\ UNCHANGED scan
Uncounted(A) == A /\ UNCHANGED <<steps, scan>>

Next ==
    \/ \E p \in Locs, data \in Edits, mtime \in Mtimes :
          Uncounted(FsWrite(p, data, mtime))
    \/ \E p \in Locs : Uncounted(FsRemove(p))
    \/ Counted(Open)
    \/ \E path \in AddDirs, recursive \in BOOLEAN, filter \in Filters :
          Counted(AddPath(path, recursive, filter))
    \/ \E path \in AddFiles : Counted(AddPath(path, FALSE, <<>>))
    \/ \E fault \in FaultChoices([t \in {1} |-> Missing]) : Counted(Purge(fault))
    \/ \E fault \in FaultChoices([t \in {1, 2} |-> IF t = 1 THEN Missing ELSE Drifted]) :
          Counted(Update(fault))
    \/ \E fault \in FaultChoices([t \in {1} |-> {<<>>}]) : Counted(ForgetDuplicates(fault))
    \/ \E fault \in FaultChoices([t \in {1} |-> {<<>>}]) : Counted(ForgetHashes(fault))
    \/ \E path \in RemoveArgs, fault \in FaultChoices([t \in {1} |-> {<<>>}]) :
          Counted(RemovePathFromIndex(path, fault))
    \/ \E fault \in FaultChoices([t \in {1} |-> {<<>>}]) : Counted(ClearIndex(fault))
    \/ /\ steps > 0 /\ moves > 0
       /\ \E path \in MoveArgs, order \in RestOrders,
             fault \in FaultChoices([t \in {1} |-> {r.Guid : r \in GetRestOfDuplicates}]) :
             Counted(MoveDuplicateFilesToDirectory(path, order, fault))
    \/ /\ steps > 0
       /\ \E found \in ResultChoices(Buckets) :
             \E fault \in ScanFaults(found) : Counted(ScanForDuplicates(found, fault))

Spec == Init /\ [][Next]_vars

-----------------------------------------------------------------------------
(* The scanning specification: a store that never fails, four files (two  *)
(* of one byte with the same content, and either a third copy of them and  *)
(* a longer file, or two longer files with the colliding contents), both   *)
(* settings of the sample size; the index is filled, refreshed and scanned *)
(* while one file of each directory changes behind it.                     *)

ScanDisks ==
    { [p \in {PX, PY, PSX, PSY} |->
          IF p \in {PX, PY} THEN File(<<0>>, 1)
          ELSE IF p = PSX THEN File(sx, 1)
          ELSE File(sy, 1)] :
      sx \in {<<0>>, <<1, 0>>}, sy \in {<<0, 1>>} }

InitScan ==
    /\ fs \in ScanDisks
    /\ files = [g \in {} |-> NoHash]
    /\ dbFiles = {}
    /\ dbDups = {}
    /\ config \in {Config(1, sampleSize, FALSE) : sampleSize \in {0, 1}}
    /\ results = {}
    /\ last = Done("Open", FALSE, 0, NoFault)
    /\ clock = 0
    /\ faults = 0
    /\ drift = MaxDrift
    /\ moves = 0
    /\ steps = 0
    /\ scan = Idle(1)

NextScan ==
    \/ \E p \in Locs, data \in Contents, mtime \in Mtimes :
          Uncounted(FsWrite(p, data, mtime))
    \/ \E p \in Locs : Uncounted(FsRemove(p))
    \/ \E recursive \in BOOLEAN : Uncounted(AddPath(<<"/", "d">>, recursive, <<>>))
    \/ Uncounted(Update(NoFault))
    \/ \E found \in ResultChoices(Buckets) : Uncounted(ScanForDuplicates(found, NoFault))

SpecScan == InitScan /\ [][NextScan]_vars

-----------------------------------------------------------------------------
(* The scan as its goroutines run it (scanner.go, lines 36-307): the main  *)
(* goroutine, the hash workers of one size group, one verifier per bucket  *)
(* with its comparisons and its closer, and the closer of resultsChan.     *)
(* Every step below is one goroutine's next channel operation, barrier or  *)
(* access to shared memory.                                                *)

MaxCPU == 2        \* runtime.NumCPU() is 1..MaxCPU
MaxScans == 1      \* scans of one run of the pipeline specification

unscanned == <<fs, config, clock, drift, moves, steps>>

(* One worker for every job. *)
OneWorkerPerJob(numCPU, numJobs) == numJobs

calculateOptimalWorkers(numCPU, numJobs) ==
    LET numWorkers == IF numCPU > numJobs THEN numJobs ELSE numCPU
    IN  IF numWorkers = 0 THEN 1 ELSE numWorkers

(* A channel that buffers nothing. *)
Unbuffered(n) == 0

(* make(chan ..., n): the number of values the channel buffers. *)
Capacity(n) == n

(* The members of seq that are in S, in their order. *)
RECURSIVE Sift(_, _)
Sift(seq, S) ==
    IF seq = <<>> THEN <<>>
    ELSE IF Head(seq) \in S THEN <<Head(seq)>> \o Sift(Tail(seq), S)
    ELSE Sift(Tail(seq), S)

(* finalHashGroups[hash] = append(finalHashGroups[hash], file) *)
AppendTo(groups, hash, g) ==
    IF hash \in DOMAIN groups THEN [groups EXCEPT ![hash] = Append(@, g)]
    ELSE (hash :> <<g>>) @@ groups

RECURSIVE AppendStored(_, _)
AppendStored(groups, seq) ==
    IF seq = <<>> THEN groups
    ELSE AppendStored(AppendTo(groups, files[Head(seq)].Hash.String, Head(seq)), Tail(seq))

(* App.Scan calls ScanForDuplicates on an index that holds records;        *)
(* ScanBySize groups them.                                                 *)
StartScan ==
    /\ scan.pc \in {"idle", "returned"}
    /\ steps > 0
    /\ Guids # {}
    /\ scan' = [Idle(scan.numCPU) EXCEPT !.pc = "groups",
                                         !.sizeGroups = {files[g].Size : g \in Guids},
                                         !.failed = scan.failed,
                                         !.scans = scan.scans + 1]
    /\ steps' = steps - 1
    /\ UNCHANGED <<fs, files, dbFiles, dbDups, config, results, last, clock, faults,
                   drift, moves>>

(* A size group of fewer than two files is passed over. *)
SkipSizeGroup(size) ==
    /\ scan.pc = "groups"
    /\ size \in scan.sizeGroups
    /\ Cardinality(SizeGroup(size)) < 2
    /\ scan' = [scan EXCEPT !.sizeGroups = @ \ {size}]
    /\ UNCHANGED <<files, dbFiles, dbDups, results, last, faults>>
    /\ UNCHANGED unscanned

(* A size group of two or more, its slice standing in the given order: the *)
(* files with a hash go to their buckets, the others become the jobs of a  *)
(* new pool of workers.                                                    *)
VisitSizeGroup(size, filesInGroup) ==
    /\ scan.pc = "groups"
    /\ size \in scan.sizeGroups
    /\ Cardinality(SizeGroup(size)) >= 2
    /\ filesInGroup \in Perms(SizeGroup(size))
    /\ LET filesToHash == Sift(filesInGroup, {g \in SizeGroup(size) : ~files[g].Hash.Valid})
           stored == Sift(filesInGroup, {g \in SizeGroup(size) : files[g].Hash.Valid})
           numJobs == Len(filesToHash)
       IN  scan' = [scan EXCEPT
                      !.sizeGroups = @ \ {size},
                      !.finalHashGroups = AppendStored(@, stored),
                      !.filesToHash = filesToHash,
                      !.numJobs = numJobs,
                      !.jobsChan = <<>>,
                      !.jobsClosed = 0,
                      !.hashResultsChan = <<>>,
                      !.hashResultsClosed = 0,
                      !.taken = [g \in Range(filesToHash) |-> 0],
                      !.yielded = [g \in Range(filesToHash) |-> 0],
                      !.workers =
                          IF numJobs = 0 THEN <<>>
                          ELSE [w \in 1..calculateOptimalWorkers(scan.numCPU, numJobs) |->
                                   [pc |-> "range", job |-> <<>>]],
                      !.pc = IF numJobs = 0 THEN "groups" ELSE "feed"]
    /\ UNCHANGED <<files, dbFiles, dbDups, results, last, faults>>
    /\ UNCHANGED unscanned

(* jobsChan <- file *)
Feed ==
    /\ scan.pc = "feed"
    /\ scan.filesToHash # <<>>
    /\ Len(scan.jobsChan) < Capacity(scan.numJobs)
    /\ scan' = [scan EXCEPT !.jobsChan = Append(@, Head(scan.filesToHash)),
                            !.filesToHash = Tail(@)]
    /\ UNCHANGED <<files, dbFiles, dbDups, results, last, faults>>
    /\ UNCHANGED unscanned

(* close(jobsChan) *)
CloseJobs ==
    /\ scan.pc = "feed"
    /\ scan.filesToHash = <<>>
    /\ scan' = [scan EXCEPT !.jobsClosed = @ + 1, !.pc = "wait"]
    /\ UNCHANGED <<files, dbFiles, dbDups, results, last, faults>>
    /\ UNCHANGED unscanned

(* for jobFile := range jobsChan: a worker receives a job. *)
WorkerTake(w) ==
    /\ w \in DOMAIN scan.workers
    /\ scan.workers[w].pc = "range"
    /\ scan.jobsChan # <<>>
    /\ scan' = [scan EXCEPT !.jobsChan = Tail(@),
                            !.workers[w] = [pc |-> "work", job |-> Head(scan.jobsChan)],
                            !.taken[Head(scan.jobsChan)] = @ + 1]
    /\ UNCHANGED <<files, dbFiles, dbDups, results, last, faults>>
    /\ UNCHANGED unscanned

(* The worker computes the hash of its job and sends the result. *)
WorkerSend(w) ==
    /\ w \in DOMAIN scan.workers
    /\ scan.workers[w].pc = "work"
    /\ Len(scan.hashResultsChan) < Capacity(scan.numJobs)
    /\ LET jobFile == scan.workers[w].job
           res == HashCalcResult(jobFile)
           calls == IF files[jobFile].Hash.Valid /\ files[jobFile].Hash.String # <<>>
                    THEN 0 ELSE 1
       IN  scan' = [scan EXCEPT
                      !.hashResultsChan =
                          Append(@, [file |-> jobFile, hashStr |-> res.hash, err |-> res.err]),
                      !.workers[w] = [pc |-> "range", job |-> <<>>],
                      !.yielded[jobFile] = @ + 1,
                      !.hashed = IF calls = 0 THEN @
                                 ELSE IF jobFile \in DOMAIN @ THEN [@ EXCEPT ![jobFile] = @ + 1]
                                 ELSE (jobFile :> 1) @@ @,
                      !.errors = IF res.err THEN @ \cup {jobFile} ELSE @,
                      !.failed = @ \/ res.err]
    /\ UNCHANGED <<files, dbFiles, dbDups, results, last, faults>>
    /\ UNCHANGED unscanned

(* The range over the closed, drained jobsChan ends: wg.Done(). *)
WorkerExit(w) ==
    /\ w \in DOMAIN scan.workers
    /\ scan.workers[w].pc = "range"
    /\ scan.jobsChan = <<>>
    /\ scan.jobsClosed > 0
    /\ scan' = [scan EXCEPT !.workers[w].pc = "exit"]
    /\ UNCHANGED <<files, dbFiles, dbDups, results, last, faults>>
    /\ UNCHANGED unscanned

(* A pool nobody waits for. *)
NoBarrier == TRUE

(* wg.Wait() of the pool returns. *)
PoolJoined == \A w \in DOMAIN scan.workers : scan.workers[w].pc = "exit"

(* wg.Wait(); close(resultsChan) *)
JoinPool ==
    /\ scan.pc = "wait"
    /\ PoolJoined
    /\ scan' = [scan EXCEPT !.hashResultsClosed = @ + 1, !.pc = "drain"]
    /\ UNCHANGED <<files, dbFiles, dbDups, results, last, faults>>
    /\ UNCHANGED unscanned

(* The record keeps no hash. *)
StillAbsent(hashStr) == NoHash

(* No result is taken for a failure. *)
NeverFailed(res) == FALSE

(* if res.err != nil (line 184) *)
Failed(res) == res.err

(* sql.NullString{String: res.hashStr, Valid: true} (line 188) *)
HashOfResult(hashStr) == NullString(hashStr, TRUE)

(* for res := range resultsChan: a failed hash is logged; a computed one   *)
(* is set on the record, appended to its bucket and queued for the store.  *)
Drain ==
    /\ scan.pc = "drain"
    /\ scan.hashResultsChan # <<>>
    /\ LET res == Head(scan.hashResultsChan)
       IN  IF Failed(res)
           THEN /\ scan' = [scan EXCEPT !.hashResultsChan = Tail(@)]
                /\ UNCHANGED files
           ELSE /\ files' = [files EXCEPT ![res.file].Hash = HashOfResult(res.hashStr)]
                /\ scan' = [scan EXCEPT
                              !.hashResultsChan = Tail(@),
                              !.finalHashGroups = AppendTo(@, res.hashStr, res.file),
                              !.allHashesToUpdate =
                                  Append(@, [guid |-> res.file, hash |-> res.hashStr])]
    /\ UNCHANGED <<dbFiles, dbDups, results, last, faults>>
    /\ UNCHANGED unscanned

(* The range over the closed, drained resultsChan ends. *)
EndDrain ==
    /\ scan.pc = "drain"
    /\ scan.hashResultsChan = <<>>
    /\ scan.hashResultsClosed > 0
    /\ scan' = [scan EXCEPT !.pc = "groups", !.workers = <<>>]
    /\ UNCHANGED <<files, dbFiles, dbDups, results, last, faults>>
    /\ UNCHANGED unscanned

(* updateHashesInIndex on the queued hashes: nothing for an empty queue,   *)
(* else one transaction, a failed row logged and left out.                 *)
WriteBackRows(rows, hashesToUpdate, fault) ==
    IF hashesToUpdate = <<>> \/ TxFails(fault, 1) THEN rows
    ELSE UpdateHash(rows,
            [g \in {hashesToUpdate[i].guid : i \in DOMAIN hashesToUpdate} \ {fault.guid} |->
                NullString((CHOOSE h \in Range(hashesToUpdate) : h.guid = g).hash, TRUE)])

(* ScanByHash, after calculateHashGroups has visited every size group. *)
WriteBack(fault) ==
    /\ scan.pc = "groups"
    /\ scan.sizeGroups = {}
    /\ fault \in {NoFault} \cup
                 IF faults = 0 \/ scan.allHashesToUpdate = <<>> THEN {}
                 ELSE {[kind |-> "begin", tx |-> 1, guid |-> <<>>]}
    /\ dbFiles' = WriteBackRows(dbFiles, scan.allHashesToUpdate, fault)
    /\ faults' = Spend(fault)
    /\ scan' = [scan EXCEPT !.wroteBack = TRUE,
                            !.pending = DOMAIN scan.finalHashGroups,
                            !.pc = "launch"]
    /\ UNCHANGED <<files, dbDups, results, last>>
    /\ UNCHANGED unscanned

(* The goroutine of lines 64-76 for one bucket, before it has run. *)
Verifier(filesInHashGroup) ==
    [pc |-> "acquire",
     files |-> filesInHashGroup,
     comparisons |-> <<>>,       \* index of the member -> its comparison goroutine
     results |-> <<>>,           \* the channel results of findDuplicatesInHashGroup
     closed |-> 0,               \* times close(results) ran
     confirmed |-> <<>>,         \* actualDuplicatesThisGroup after its first entry
     result |-> {}]              \* the *ResultList returned, {} for nil

(* A bucket of fewer than two files is passed over. *)
SkipBucket(hash) ==
    /\ scan.pc = "launch"
    /\ hash \in scan.pending
    /\ Len(scan.finalHashGroups[hash]) < 2
    /\ scan' = [scan EXCEPT !.pending = @ \ {hash}]
    /\ UNCHANGED <<files, dbFiles, dbDups, results, last, faults>>
    /\ UNCHANGED unscanned

(* wg.Add(1); go func(h, files) *)
Launch(hash) ==
    /\ scan.pc = "launch"
    /\ hash \in scan.pending
    /\ Len(scan.finalHashGroups[hash]) >= 2
    /\ scan' = [scan EXCEPT !.pending = @ \ {hash},
                            !.verifiers = (hash :> Verifier(scan.finalHashGroups[hash])) @@ @]
    /\ UNCHANGED <<files, dbFiles, dbDups, results, last, faults>>
    /\ UNCHANGED unscanned

(* The loop over the buckets has ended: the closer of resultsChan is       *)
(* started and the main goroutine ranges over resultsChan.                 *)
StartCollect ==
    /\ scan.pc = "launch"
    /\ scan.pending = {}
    /\ scan' = [scan EXCEPT !.pc = "collect"]
    /\ UNCHANGED <<files, dbFiles, dbDups, results, last, faults>>
    /\ UNCHANGED unscanned

(* A semaphore that admits everyone. *)
NeverFull == FALSE

(* The semaphore channel holds as many tokens as it buffers. *)
SemaphoreFull == scan.semaphore >= Capacity(scan.numCPU)

(* semaphore <- struct{}{}, then findDuplicatesInHashGroup up to its range *)
(* loop: one comparison goroutine per member after the first.              *)
Acquire(hash) ==
    /\ hash \in DOMAIN scan.verifiers
    /\ scan.verifiers[hash].pc = "acquire"
    /\ ~SemaphoreFull
    /\ scan' = [scan EXCEPT
                  !.semaphore = @ + 1,
                  !.verifiers[hash].pc = "range",
                  !.verifiers[hash].comparisons =
                      [i \in 2..Len(scan.verifiers[hash].files) |->
                          [pc |-> "run", runs |-> 0, identical |-> FALSE, err |-> FALSE]]]
    /\ UNCHANGED <<files, dbFiles, dbDups, results, last, faults>>
    /\ UNCHANGED unscanned

(* What one call of compareFilesBinarySampleSize can return. *)
Compared(filePathA, filePathB, sampleSize) ==
    IF ~FileExists(filePathA) \/ ~FileExists(filePathB)
    THEN {[identical |-> FALSE, err |-> TRUE]}
    ELSE {compareFilesBinarySampleSize(filePathA, filePathB, sampleSize, positions) :
             positions \in PositionChoices(StatSize(filePathA), sampleSize)}

(* The comparison of member i with the first member, and its send. *)
Compare(hash, i) ==
    /\ hash \in DOMAIN scan.verifiers
    /\ i \in DOMAIN scan.verifiers[hash].comparisons
    /\ scan.verifiers[hash].comparisons[i].pc = "run"
    /\ Len(scan.verifiers[hash].results) < Capacity(Len(scan.verifiers[hash].files) - 1)
    /\ \E r \in Compared(files[scan.verifiers[hash].files[1]].Path,
                         files[scan.verifiers[hash].files[i]].Path,
                         config.BinaryCompareBytes) :
          scan' = [scan EXCEPT
                     !.verifiers[hash].comparisons[i] =
                         [pc |-> "done", runs |-> @.runs + 1,
                          identical |-> r.identical, err |-> r.err],
                     !.verifiers[hash].results =
                         Append(@, [file |-> scan.verifiers[hash].files[i],
                                    identical |-> r.identical, err |-> r.err])]
    /\ UNCHANGED <<files, dbFiles, dbDups, results, last, faults>>
    /\ UNCHANGED unscanned

(* wg.Wait(); close(results) of the bucket's closer. *)
CloseCompared(hash) ==
    /\ hash \in DOMAIN scan.verifiers
    /\ scan.verifiers[hash].pc = "range"
    /\ scan.verifiers[hash].closed = 0
    /\ \A i \in DOMAIN scan.verifiers[hash].comparisons :
          scan.verifiers[hash].comparisons[i].pc = "done"
    /\ scan' = [scan EXCEPT !.verifiers[hash].closed = @ + 1]
    /\ UNCHANGED <<files, dbFiles, dbDups, results, last, faults>>
    /\ UNCHANGED unscanned

(* Every compared member is confirmed. *)
ConfirmsAll(result) == TRUE

(* Lines 284-291: which results are appended to the confirmed members. *)
Confirms(result) == ~result.err /\ result.identical

(* for result := range results *)
Collect(hash) ==
    /\ hash \in DOMAIN scan.verifiers
    /\ scan.verifiers[hash].pc = "range"
    /\ scan.verifiers[hash].results # <<>>
    /\ scan' = [scan EXCEPT
                  !.verifiers[hash].results = Tail(@),
                  !.verifiers[hash].confirmed =
                      IF Confirms(Head(scan.verifiers[hash].results))
                      THEN Append(@, Head(scan.verifiers[hash].results).file)
                      ELSE @]
    /\ UNCHANGED <<files, dbFiles, dbDups, results, last, faults>>
    /\ UNCHANGED unscanned

(* The range ends; findDuplicatesInHashGroup returns its list or nil. *)
Build(hash) ==
    /\ hash \in DOMAIN scan.verifiers
    /\ scan.verifiers[hash].pc = "range"
    /\ scan.verifiers[hash].results = <<>>
    /\ scan.verifiers[hash].closed > 0
    /\ \E result \in {findDuplicatesInHashGroup(hash, scan.verifiers[hash].files,
                                                scan.verifiers[hash].confirmed)} :
          scan' = [scan EXCEPT
                     !.verifiers[hash].result = result,
                     !.verifiers[hash].pc = IF result = {} THEN "release" ELSE "persist"]
    /\ UNCHANGED <<files, dbFiles, dbDups, results, last, faults>>
    /\ UNCHANGED unscanned

(* addDuplicatesToIndex(result); its error is a warning. *)
Persist(hash, fault) ==
    /\ hash \in DOMAIN scan.verifiers
    /\ scan.verifiers[hash].pc = "persist"
    /\ fault \in {NoFault} \cup
                 IF faults = 0 THEN {}
                 ELSE {[kind |-> "commit", tx |-> 2, guid |-> scan.verifiers[hash].files[1]]}
    /\ dbDups' = addDuplicatesToIndex(dbDups, scan.verifiers[hash].result, fault)
    /\ faults' = Spend(fault)
    /\ scan' = [scan EXCEPT !.verifiers[hash].pc = "send"]
    /\ UNCHANGED <<files, dbFiles, results, last>>
    /\ UNCHANGED unscanned

(* resultsChan <- *result *)
Send(hash) ==
    /\ hash \in DOMAIN scan.verifiers
    /\ scan.verifiers[hash].pc = "send"
    /\ Len(scan.resultsChan) < Capacity(Cardinality(DOMAIN scan.finalHashGroups))
    /\ scan' = [scan EXCEPT
                  !.resultsChan = Append(@, CHOOSE r \in scan.verifiers[hash].result : TRUE),
                  !.verifiers[hash].pc = "release"]
    /\ UNCHANGED <<files, dbFiles, dbDups, results, last, faults>>
    /\ UNCHANGED unscanned

(* The deferred <-semaphore and wg.Done(). *)
Release(hash) ==
    /\ hash \in DOMAIN scan.verifiers
    /\ scan.verifiers[hash].pc = "release"
    /\ scan' = [scan EXCEPT !.semaphore = @ - 1, !.verifiers[hash].pc = "done"]
    /\ UNCHANGED <<files, dbFiles, dbDups, results, last, faults>>
    /\ UNCHANGED unscanned

(* wg.Wait(); close(resultsChan) of the closer of line 80. *)
CloseResults ==
    /\ scan.pc = "collect"
    /\ scan.resultsClosed = 0
    /\ \A hash \in DOMAIN scan.verifiers : scan.verifiers[hash].pc = "done"
    /\ scan' = [scan EXCEPT !.resultsClosed = @ + 1]
    /\ UNCHANGED <<files, dbFiles, dbDups, results, last, faults>>
    /\ UNCHANGED unscanned

(* for result := range resultsChan: results = append(results, result) *)
Receive ==
    /\ scan.pc = "collect"
    /\ scan.resultsChan # <<>>
    /\ scan' = [scan EXCEPT !.resultsChan = Tail(@),
                            !.results = Append(@, Head(scan.resultsChan))]
    /\ UNCHANGED <<files, dbFiles, dbDups, results, last, faults>>
    /\ UNCHANGED unscanned

(* The range ends and ScanForDuplicates returns its results to App.Scan. *)
Return ==
    /\ scan.pc = "collect"
    /\ scan.resultsChan = <<>>
    /\ scan.resultsClosed > 0
    /\ scan' = [scan EXCEPT !.pc = "returned"]
    /\ results' = Range(scan.results)
    /\ last' = Done("Scan", FALSE, Len(scan.results), NoFault)
    /\ UNCHANGED <<files, dbFiles, dbDups, faults>>
    /\ UNCHANGED unscanned

(* The accesses to shared memory that are about to happen, by goroutine:   *)
(* 0 is the goroutine that runs the function, worker w is w, the           *)
(* comparison of member i is i.                                            *)

(* res.file.Hash = ... (line 188) *)
HashWriters(g) ==
    IF /\ scan.pc = "drain" /\ scan.hashResultsChan # <<>>
       /\ ~Head(scan.hashResultsChan).err /\ Head(scan.hashResultsChan).file = g
    THEN {0} ELSE {}

(* file.Hash.Valid (line 127) and jobFile.Hash (line 159) *)
HashReaders(g) ==
    (IF scan.pc = "groups" /\ files[g].Size \in scan.sizeGroups THEN {0} ELSE {})
    \cup {w \in DOMAIN scan.workers : scan.workers[w].pc = "work" /\ scan.workers[w].job = g}

(* finalHashGroups[...] = append(...) (lines 131, 189) and the range of    *)
(* line 58.                                                                *)
BucketMapUsers ==
    IF scan.pc \in {"groups", "drain", "launch"} THEN {0} ELSE {}

(* Every comparison appends its own member. *)
ComparisonsAppend(hash) ==
    {i \in DOMAIN scan.verifiers[hash].comparisons :
        scan.verifiers[hash].comparisons[i].pc = "run"}

(* actualDuplicatesThisGroup = append(...) (line 290) *)
ConfirmedWriters(hash) ==
    IF /\ scan.verifiers[hash].pc = "range" /\ scan.verifiers[hash].results # <<>>
       /\ Confirms(Head(scan.verifiers[hash].results))
    THEN {0} ELSE {}

(* results = append(results, result) (line 86): 0 is the main goroutine,   *)
(* the verifiers would be 1.                                               *)
ResultsWriters ==
    IF scan.pc = "collect" /\ scan.resultsChan # <<>> THEN {0} ELSE {}

(* The steps of the goroutines of a scan. *)
ScanStep ==
    \/ \E size \in scan.sizeGroups : SkipSizeGroup(size)
    \/ \E size \in scan.sizeGroups :
          \E filesInGroup \in Perms(SizeGroup(size)) : VisitSizeGroup(size, filesInGroup)
    \/ Feed
    \/ CloseJobs
    \/ \E w \in DOMAIN scan.workers : WorkerTake(w)
    \/ \E w \in DOMAIN scan.workers : WorkerSend(w)
    \/ \E w \in DOMAIN scan.workers : WorkerExit(w)
    \/ JoinPool
    \/ Drain
    \/ EndDrain
    \/ \E fault \in {NoFault, [kind |-> "begin", tx |-> 1, guid |-> <<>>]} : WriteBack(fault)
    \/ \E hash \in scan.pending : SkipBucket(hash)
    \/ \E hash \in scan.pending : Launch(hash)
    \/ StartCollect
    \/ \E hash \in DOMAIN scan.verifiers : Acquire(hash)
    \/ \E hash \in DOMAIN scan.verifiers :
          \E i \in DOMAIN scan.verifiers[hash].comparisons : Compare(hash, i)
    \/ \E hash \in DOMAIN scan.verifiers : CloseCompared(hash)
    \/ \E hash \in DOMAIN scan.verifiers : Collect(hash)
    \/ \E hash \in DOMAIN scan.verifiers : Build(hash)
    \/ \E hash \in DOMAIN scan.verifiers :
          \E fault \in {NoFault, [kind |-> "commit", tx |-> 2,
                                  guid |-> scan.verifiers[hash].files[1]]} :
             Persist(hash, fault)
    \/ \E hash \in DOMAIN scan.verifiers : Send(hash)
    \/ \E hash \in DOMAIN scan.verifiers : Release(hash)
    \/ CloseResults
    \/ Receive
    \/ Return

(* The pipeline specification: a machine of one or two processors, the     *)
(* disks of the scanning specification, one sampled byte per comparison, a *)
(* store that may fail once; the index is filled while no scan runs and    *)
(* the file /d/x may vanish at any moment.                                 *)
InitPipeline ==
    /\ fs \in ScanDisks
    /\ files = [g \in {} |-> NoHash]
    /\ dbFiles = {}
    /\ dbDups = {}
    /\ config = Config(1, 1, FALSE)
    /\ results = {}
    /\ last = Done("Open", FALSE, 0, NoFault)
    /\ clock = 0
    /\ faults = MaxFaults
    /\ drift = MaxDrift
    /\ moves = 0
    /\ steps = MaxScans
    /\ scan \in {Idle(numCPU) : numCPU \in 1..MaxCPU}

NextPipeline ==
    \/ /\ scan.pc \in {"idle", "returned"}
       /\ Uncounted(AddPath(<<"/", "d">>, TRUE, <<>>))
    \/ Uncounted(FsRemove(PX))
    \/ StartScan
    \/ ScanStep

SpecPipeline == InitPipeline /\ [][NextPipeline]_vars

(* The same under a scheduler that runs some goroutine whenever one can    *)
(* run.                                                                    *)
SpecPipelineFair == SpecPipeline /\ WF_vars(ScanStep)

(* Two scans in a row on one processor with a store that does not fail.    *)
MaxRescans == 2

InitRescan ==
    /\ fs \in ScanDisks
    /\ files = [g \in {} |-> NoHash]
    /\ dbFiles = {}
    /\ dbDups = {}
    /\ config = Config(1, 1, FALSE)
    /\ results = {}
    /\ last = Done("Open", FALSE, 0, NoFault)
    /\ clock = 0
    /\ faults = 0
    /\ drift = MaxDrift
    /\ moves = 0
    /\ steps = MaxRescans
    /\ scan = Idle(1)

SpecRescan == InitRescan /\ [][NextPipeline]_vars

-----------------------------------------------------------------------------
(* Properties of the scan, checked under SpecScan. *)

(* The member sets of the groups the last scan returned. *)
Members(r) == Range(r.FileGuids)
GroupSets == {Members(r) : r \in results}

(* The file of record g is there, and what it holds. *)
Present(g) == FileExists(files[g].Path)
Content(g) == fs[Resolve(files[g].Path)].data

(* C1: with sample size 0 (full comparison), any two members of a group    *)
(* the scan has just returned are files with exactly the same bytes.        *)
C1_ExactGroupsAreIdentical ==
    (last.op = "Scan" /\ config.BinaryCompareBytes = 0) =>
        \A r \in results : \A g, h \in Members(r) :
            Present(g) /\ Present(h) /\ Content(g) = Content(h)

(* C2: all members of a group the scan has just returned carry the same    *)
(* recorded size.                                                          *)
C2_GroupsShareRecordedSize ==
    last.op = "Scan" =>
        \A r \in results : \A g, h \in Members(r) : files[g].Size = files[h].Size

(* C3: every member of a group the scan has just returned has a stored     *)
(* hash, and it is the hash of the group.                                  *)
C3_MembersCarryGroupHash ==
    last.op = "Scan" =>
        \A r \in results : \A g \in Members(r) :
            /\ g \in Guids
            /\ files[g].Hash.Valid
            /\ files[g].Hash.String = r.HashSum

(* A scan after a file changed behind the index returned a group, one of   *)
(* whose members was hashed before the change.                             *)
C3_GroupReturned ==
    /\ last.op = "Scan"
    /\ drift = 0
    /\ \E r \in results : Cardinality(Members(r)) >= 2

(* C4: a scan that follows a scan with nothing in between returns the same *)
(* member sets.                                                            *)
C4_RescanSameGroups ==
    [][(last.op = "Scan" /\ last'.op = "Scan") => GroupSets' = GroupSets]_vars

(* C5: with sample size 0 and every indexed file readable, two records of  *)
(* equal size whose files hold the same bytes are in one group after the   *)
(* scan; when they are the whole catalog, that group is the only one and   *)
(* has them as its two members.                                            *)
C5_IdenticalFilesGrouped ==
    (/\ last.op = "Scan"
     /\ config.BinaryCompareBytes = 0
     /\ \A g \in Guids : Present(g)) =>
        \A g, h \in Guids :
            (g # h /\ files[g].Size = files[h].Size /\ Content(g) = Content(h)) =>
                /\ \E r \in results : {g, h} \subseteq Members(r)
                /\ Guids = {g, h} => GroupSets = {{g, h}} /\ Cardinality(results) = 1

-----------------------------------------------------------------------------
(* Claims about the catalog, checked under Spec. *)

Mirrored == {RowOf(files[g]) : g \in Guids} = dbFiles

Completing ==
    {"Open", "AddFile", "AddDirectory", "Update", "Purge", "Remove", "Clear", "Move",
     "ForgetDuplicates", "ForgetHashes", "Scan"}

(* C6: after Open and after every operation that completes without error  *)
(* (AddPath, Update, Purge, Remove, Clear, Move, ForgetDuplicates,         *)
(* ForgetHashes, ScanForDuplicates) the in-memory map and table files hold *)
(* the same identities, each with the same path, size, modTime and hash.   *)
C6_MapMirrorsStore ==
    (last.op \in Completing /\ ~last.err) => Mirrored

Batched == {"AddDirectory", "Purge", "Update"}

(* C7: when the transaction of a batched mutation (directory walk, Purge,  *)
(* the deletions or the updates of Update) fails at begin, prepare or      *)
(* commit, or the operation aborts, the operation returns an error and the *)
(* in-memory map holds exactly the records it held before the operation.   *)
C7_FailedBatchLeavesMap ==
    [][(/\ last'.op \in Batched
        /\ last'.fault.kind \in {"begin", "prepare", "commit"} \/ last'.err)
       => (last'.err /\ files' = files)]_vars

(* The rows of table files that the batch tx of the operation op writes. *)
BatchRows(op, tx) ==
    CASE op = "AddDirectory" -> dbFiles' \ dbFiles
      [] op = "Purge" -> dbFiles \ dbFiles'
      [] op = "Scan" -> dbFiles' \ dbFiles
      [] op = "Update" /\ tx = 1 -> {r \in dbFiles \ dbFiles' : r.Guid \in Missing}
      [] op = "Update" /\ tx = 2 -> {r \in dbFiles \ dbFiles' : r.Guid \in Drifted}
      [] OTHER -> {}

(* C8: within one batched transaction (directory inserts, Purge deletes,   *)
(* Update deletes, Update updates, the scan's hash write-back), when the   *)
(* statement of one row fails, no row of the batch is applied to the store.*)
C8_FailedRowAppliesNone ==
    [][(/\ last'.op \in Batched \cup {"Scan"}
        /\ last'.fault.kind = "exec"
        /\ last'.op = "Scan" => last'.fault.tx = 1)
       => BatchRows(last'.op, last'.fault.tx) = {}]_vars

(* C9: no two records of table files share a guid, and every entry of the  *)
(* in-memory map is stored under the guid of its own record.               *)
C9_IdentityUnique ==
    /\ \A r, q \in dbFiles : r.Guid = q.Guid => r = q
    /\ \A g \in Guids : files[g].Guid = g

(* A duplicate was moved, which rewrites the guid of its record, while    *)
(* another record stays in the map.                                        *)
C9_FileMoved ==
    last.op = "Move" /\ last.count >= 1 /\ Cardinality(Guids) >= 2

(* C10: the guid is a function of the canonical absolute path of the file: *)
(* one file added under two spellings of its path has one record, and no   *)
(* group of a scan holds one file twice.                                   *)
C10_OneRecordPerFile ==
    /\ \A g, h \in Guids :
          Resolve(files[g].Path) = Resolve(files[h].Path) => g = h
    /\ last.op = "Scan" =>
          \A r \in results : \A i, j \in DOMAIN r.FileGuids :
              (/\ i # j
               /\ r.FileGuids[i] \in Guids /\ r.FileGuids[j] \in Guids)
              => Resolve(files[r.FileGuids[i]].Path) # Resolve(files[r.FileGuids[j]].Path)

-----------------------------------------------------------------------------
(* Claims about table duplicates. *)

(* C11: every row of table duplicates names the guid of a row of table     *)
(* files, whatever was purged, updated, removed, cleared, forgotten or     *)
(* moved, and after ClearIndex table duplicates is empty.                  *)
C11_MembershipRefersToRecord ==
    /\ \A d \in dbDups : \E r \in dbFiles : r.Guid = d.guid
    /\ (last.op = "Clear" /\ ~last.err) => dbDups = {}

(* C12: after a scan every guid of table duplicates is a member of a group *)
(* returned by that scan.                                                  *)
C12_MembershipIsOfLatestScan ==
    last.op = "Scan" => DuplicateGuids \subseteq UNION GroupSets

(* C13: when a scan returns, every member of every returned group has a    *)
(* row in table duplicates.                                                *)
C13_ReturnedGroupsAreStored ==
    last.op = "Scan" => UNION GroupSets \subseteq DuplicateGuids

-----------------------------------------------------------------------------
(* Claims about single operations of the index. *)

(* The hash h is absent, or the hash of what the file of record g holds.   *)
FreshOrAbsent(h, g) ==
    ~h.Valid \/ h.String = CalculateFileHash(files[g].Path, StatSize(files[g].Path)).hash

(* The operation has taken the size and time of the file into record g. *)
Observed(g) ==
    /\ g \in DOMAIN files'
    /\ files'[g].Size = StatSize(files[g].Path)
    /\ files'[g].ModTime = StatModTime(files[g].Path)

-----------------------------------------------------------------------------
(* The upkeep specification: a store that never fails and an index over   *)
(* three files that is filled, purged and updated while files of it are    *)
(* rewritten and removed, up to MaxUpkeepDrift times.                      *)

MaxUpkeepDrift == 2

InitUpkeep ==
    /\ fs = [p \in {PX, PY, PSX} |-> File(<<0>>, 1)]
    /\ files = [g \in {} |-> NoHash]
    /\ dbFiles = {}
    /\ dbDups = {}
    /\ config = Config(1, 0, FALSE)
    /\ results = {}
    /\ last = Done("Open", FALSE, 0, NoFault)
    /\ clock = 0
    /\ faults = 0
    /\ drift = MaxUpkeepDrift
    /\ moves = 0
    /\ steps = 0
    /\ scan = Idle(1)

NextUpkeep ==
    \/ \E p \in Locs, data \in Edits, mtime \in Mtimes :
          Uncounted(FsWrite(p, data, mtime))
    \/ \E p \in Locs : Uncounted(FsRemove(p))
    \/ \E recursive \in BOOLEAN : Uncounted(AddPath(<<"/", "d">>, recursive, <<>>))
    \/ Uncounted(Purge(NoFault))
    \/ Uncounted(Update(NoFault))

SpecUpkeep == InitUpkeep /\ [][NextUpkeep]_vars

C17_RemoveDeletesBeneath ==
    [][(last'.op = "Remove" /\ ~last'.err) =>
          \E dir \in {Clean(path) : path \in RemoveArgs} :
              /\ dbFiles' = {r \in dbFiles : ~(r.Path = dir \/ Beneath(dir, r.Path))}
              /\ DOMAIN files' =
                    {g \in Guids : ~(files[g].Path = dir \/ Beneath(dir, files[g].Path))}
              /\ \A g \in DOMAIN files' : files'[g] = files[g]
              /\ last'.count = Cardinality(dbFiles \ dbFiles')]_vars

(* C18: after ForgetDuplicates no record that had a row in table           *)
(* duplicates is left, neither in the map nor in the store, and every      *)
(* record without such a row is as it was.                                 *)
C18_ForgetDuplicatesDropsRecords ==
    [][(last'.op = "ForgetDuplicates" /\ ~last'.err) =>
          /\ DOMAIN files' = Guids \ DuplicateGuids
          /\ \A g \in DOMAIN files' : files'[g] = files[g]
          /\ dbFiles' = {r \in dbFiles : r.Guid \notin DuplicateGuids}]_vars

(* C19: after ForgetHashes every record is without a hash, in the store    *)
(* and in the map, so that a scan of this Index would hash every record of *)
(* a size group of two or more.                                            *)
C19_ForgetHashesClearsAll ==
    (last.op = "ForgetHashes" /\ ~last.err) =>
        /\ \A r \in dbFiles : ~r.Hash.Valid
        /\ \A g \in Guids : ~files[g].Hash.Valid
        /\ FilesToHash = Candidates

(* The record g is of a file that has the size and time of the record. *)
AsRecorded(g) ==
    /\ FileExists(files[g].Path)
    /\ StatSize(files[g].Path) = files[g].Size
    /\ StatModTime(files[g].Path) = files[g].ModTime

(* C20: AddPath leaves the record and the store row of every file that is  *)
(* cataloged with the size and time it has on disk as they were, hash      *)
(* included; when every record is of this kind and the call catalogs no    *)
(* new identity, the whole catalog stays as it was.                        *)
C20_ReAddChangesNothing ==
    [][last'.op \in {"AddFile", "AddDirectory"} =>
          /\ \A g \in Guids : AsRecorded(g) =>
                /\ g \in DOMAIN files' /\ files'[g] = files[g]
                /\ {r \in dbFiles' : r.Guid = g} = {r \in dbFiles : r.Guid = g}
          /\ ((\A g \in Guids : AsRecorded(g)) /\ DOMAIN files' = Guids)
             => (files' = files /\ dbFiles' = dbFiles)]_vars

(* AddPath has run over a tree whose records carry the hashes of a scan. *)
C20_ReAddedAfterScan ==
    /\ last.op = "AddDirectory" /\ ~last.err
    /\ results # {}
    /\ \A g \in Guids : AsRecorded(g) /\ files[g].Hash.Valid
    /\ Cardinality(Guids) >= 2

(* The file at the absolute path p is smaller than the configured minimum. *)
TooSmall(p) == config.MinFileSize > 0 /\ Len(fs[p].data) < config.MinFileSize

(* C21: with a minimum size above 0, AddPath (one file or a walk) neither  *)
(* creates nor replaces a record for a file below the minimum: the records *)
(* and the rows of such a file are after the call what they were before.   *)
C21_SmallFilesNotCataloged ==
    [][last'.op \in {"AddFile", "AddDirectory"} =>
          \A p \in {q \in DOMAIN fs : TooSmall(q)} :
              /\ {g \in DOMAIN files' : Resolve(files'[g].Path) = p}
                    = {g \in Guids : Resolve(files[g].Path) = p}
              /\ \A g \in Guids : Resolve(files[g].Path) = p => files'[g] = files[g]
              /\ {r \in dbFiles' : Resolve(r.Path) = p}
                    = {r \in dbFiles : Resolve(r.Path) = p}]_vars

(* A walk of /d has cataloged /d/y and passed over the empty file /d/x. *)
C21_SmallFileSkipped ==
    /\ last.op = "AddDirectory" /\ ~last.err
    /\ PX \in DOMAIN fs /\ fs[PX].data = <<>>
    /\ PX \notin Guids /\ PY \in Guids
    /\ \E r \in dbFiles : r.Guid = PY

(* C22: a move rewrites path and guid of a record together, in the store   *)
(* and in the map: the number of records stays in both, every guid the map *)
(* gains is the guid of a store row with the same path, no guid the map    *)
(* loses is left in the store, and when the UPDATE of the store fails the  *)
(* map is left unchanged.                                                  *)
C22_MoveRewritesBoth ==
    [][last'.op = "Move" =>
          /\ Cardinality(dbFiles') = Cardinality(dbFiles)
          /\ Cardinality(DOMAIN files') = Cardinality(Guids)
          /\ \A g \in DOMAIN files' \ Guids :
                \E r \in dbFiles' : r.Guid = g /\ r.Path = files'[g].Path
          /\ \A g \in Guids \ DOMAIN files' : \A r \in dbFiles' : r.Guid # g
          /\ last'.fault.kind = "exec" => files' = files]_vars

(* The record g is the only one of its recorded size. *)
AloneInSize(g) == SizeGroup(files[g].Size) = {g}

(* C23: a scan leaves a record whose size no other record shares as it     *)
(* was, in the map and in the store (it is not hashed), and puts it in no  *)
(* group; when no two records share a size the scan returns no group.      *)
C23_UniqueSizeUntouched ==
    [][last'.op = "Scan" =>
          /\ \A g \in {h \in Guids : AloneInSize(h)} :
                /\ g \in DOMAIN files' /\ files'[g] = files[g]
                /\ {r \in dbFiles' : r.Guid = g} = {r \in dbFiles : r.Guid = g}
                /\ \A r \in results' : g \notin Members(r)
          /\ (\A g \in Guids : AloneInSize(g)) => results' = {}]_vars

(* A scan has returned a group and passed over a record that is alone in   *)
(* its size and still carries no hash.                                     *)
C23_LoneRecordPassedOver ==
    /\ last.op = "Scan" /\ results # {}
    /\ \E g \in Guids : AloneInSize(g) /\ ~files[g].Hash.Valid

(* The rows with a membership row that share size and hash with row r. *)
SizeHashClass(r) == {q \in GetAllDupes : q.Size = r.Size /\ q.Hash = r.Hash}

(* C24: of every set of rows with a membership row that share size and     *)
(* hash, GetRestOfDuplicates returns all but exactly one, the one with the *)
(* smallest guid; what it returns is part of what GetAllDupes returns, and *)
(* never a whole set.                                                      *)
C24_RestLeavesSmallest ==
    /\ GetRestOfDuplicates \subseteq GetAllDupes
    /\ \A r \in GetAllDupes :
          /\ \E k \in SizeHashClass(r) :
                /\ SizeHashClass(r) \cap GetRestOfDuplicates = SizeHashClass(r) \ {k}
                /\ \A q \in SizeHashClass(r) \ {k} : StrLess(k.Guid, q.Guid)
          /\ ~(SizeHashClass(r) \subseteq GetRestOfDuplicates)

(* The store holds a set of two rows or more of one size and hash, and a   *)
(* row with a membership row that stands alone.                            *)
C24_RestAndLoneRow ==
    /\ GetRestOfDuplicates # {}
    /\ \E r \in GetAllDupes : SizeHashClass(r) = {r}

-----------------------------------------------------------------------------
(* Properties of the pipeline, checked under SpecPipeline. *)

Scanning == scan.pc \notin {"idle", "returned"}

(* The verifiers that hold a slot of the semaphore. *)
InVerification ==
    {h \in DOMAIN scan.verifiers :
        scan.verifiers[h].pc \in {"range", "persist", "send", "release"}}

(* No channel is closed twice, and none before its producers are through. *)
ClosedAfterProducers ==
    /\ scan.jobsClosed <= 1 /\ scan.hashResultsClosed <= 1 /\ scan.resultsClosed <= 1
    /\ scan.jobsClosed = 1 => scan.filesToHash = <<>>
    /\ scan.hashResultsClosed = 1 =>
          \A w \in DOMAIN scan.workers : scan.workers[w].pc = "exit"
    /\ scan.resultsClosed = 1 =>
          /\ scan.pending = {}
          /\ \A h \in DOMAIN scan.verifiers : scan.verifiers[h].pc = "done"
    /\ \A h \in DOMAIN scan.verifiers :
          /\ scan.verifiers[h].closed <= 1
          /\ scan.verifiers[h].closed = 1 =>
                \A i \in DOMAIN scan.verifiers[h].comparisons :
                    scan.verifiers[h].comparisons[i].pc = "done"

(* The scan has returned with every goroutine gone and every channel it    *)
(* made closed.                                                            *)
AllGone ==
    /\ scan.pc = "returned"
    /\ scan.resultsClosed = 1 /\ scan.resultsChan = <<>>
    /\ scan.numJobs > 0 => scan.jobsClosed = 1 /\ scan.hashResultsClosed = 1
    /\ scan.jobsChan = <<>> /\ scan.hashResultsChan = <<>> /\ scan.workers = <<>>
    /\ \A h \in DOMAIN scan.verifiers :
          /\ scan.verifiers[h].pc = "done"
          /\ scan.verifiers[h].closed = 1 /\ scan.verifiers[h].results = <<>>
          /\ \A i \in DOMAIN scan.verifiers[h].comparisons :
                scan.verifiers[h].comparisons[i].pc = "done"

(* C25: under a fair scheduler every scan that has started returns, with   *)
(* no worker, verifier, comparison or closer left waiting, also with more  *)
(* buckets than slots in the semaphore; every job and result channel is    *)
(* closed once, after its producers have finished.                         *)
C25_ScanTerminates ==
    /\ [](ClosedAfterProducers /\ (scan.pc = "returned" => AllGone))
    /\ Scanning ~> AllGone

(* A scan on one processor has returned after verifying two buckets, its   *)
(* hashes computed by a pool.                                              *)
C25_TwoBucketsOneSlot ==
    /\ AllGone
    /\ scan.numCPU = 1
    /\ Cardinality(DOMAIN scan.verifiers) = 2
    /\ scan.hashResultsClosed = 1

(* C26: never more buckets hold a slot of the semaphore than the machine   *)
(* has processors and the semaphore holds one token for each of them; when *)
(* the scan returns every bucket of two or more has been verified by its   *)
(* one goroutine, each member compared once, and no token is left, whether *)
(* the bucket gave a group or not and whether its membership was stored.   *)
C26_SemaphoreBoundsBuckets ==
    /\ Cardinality(InVerification) <= scan.numCPU
    /\ scan.semaphore = Cardinality(InVerification)
    /\ scan.pc = "returned" =>
          /\ scan.semaphore = 0
          /\ DOMAIN scan.verifiers =
                {h \in DOMAIN scan.finalHashGroups : Len(scan.finalHashGroups[h]) >= 2}
          /\ \A h \in DOMAIN scan.verifiers :
                /\ scan.verifiers[h].pc = "done"
                /\ \A i \in 2..Len(scan.finalHashGroups[h]) :
                      scan.verifiers[h].comparisons[i].runs = 1

(* On one processor two buckets were verified: one gave no group, the      *)
(* other a group whose membership the store refused.                       *)
C26_NoGroupAndFailedStore ==
    /\ scan.pc = "returned" /\ scan.numCPU = 1
    /\ Cardinality(DOMAIN scan.verifiers) = 2
    /\ \E h \in DOMAIN scan.verifiers : scan.verifiers[h].result = {}
    /\ scan.results # <<>> /\ dbDups = {}

(* C27: a pool for n >= 1 pending files has min(NumCPU, n) workers and at  *)
(* least one, so never more hashes are being computed; every pending file  *)
(* is received by one worker at most and gives one result at most, and     *)
(* exactly one of each once the pool has been joined.                      *)
C27_PoolSizedToJobs ==
    scan.workers # <<>> =>
       /\ scan.numJobs >= 1
       /\ Len(scan.workers) = Min(scan.numCPU, scan.numJobs)
       /\ Len(scan.workers) >= 1
       /\ Cardinality({w \in DOMAIN scan.workers : scan.workers[w].pc = "work"})
             <= Min(scan.numCPU, scan.numJobs)
       /\ Cardinality(DOMAIN scan.taken) = scan.numJobs
       /\ \A g \in DOMAIN scan.taken :
             /\ scan.taken[g] <= 1 /\ scan.yielded[g] <= scan.taken[g]
             /\ scan.hashResultsClosed = 1 => scan.taken[g] = 1 /\ scan.yielded[g] = 1

(* Two workers have hashed three files, one of them with an error. *)
C27_ThreeJobsTwoWorkers ==
    /\ scan.pc = "drain" /\ scan.numJobs = 3 /\ Len(scan.workers) = 2
    /\ Len(scan.hashResultsChan) = 3
    /\ \E i \in DOMAIN scan.hashResultsChan : scan.hashResultsChan[i].err

(* C28: while a bucket is in verification every size group has been        *)
(* visited, no worker and no hash result is left and updateHashesInIndex   *)
(* has returned; and the results of a pool are read only when all its      *)
(* workers have exited.                                                    *)
C28_StagesInOrder ==
    /\ scan.verifiers # <<>> =>
          /\ scan.sizeGroups = {} /\ scan.filesToHash = <<>>
          /\ scan.workers = <<>> /\ scan.jobsChan = <<>> /\ scan.hashResultsChan = <<>>
          /\ scan.wroteBack
    /\ scan.pc = "drain" =>
          \A w \in DOMAIN scan.workers : scan.workers[w].pc = "exit"

(* A member has been compared in a scan that computed hashes and wrote     *)
(* them back.                                                              *)
C28_ComparedAfterWriteBack ==
    /\ scan.allHashesToUpdate # <<>>
    /\ \E h \in DOMAIN scan.verifiers : \E i \in DOMAIN scan.verifiers[h].comparisons :
          scan.verifiers[h].comparisons[i].pc = "done"
    /\ \E r \in dbFiles : r.Hash.Valid

Identical(h) ==
    {i \in DOMAIN scan.verifiers[h].comparisons :
        /\ scan.verifiers[h].comparisons[i].identical
        /\ ~scan.verifiers[h].comparisons[i].err}

(* C30: once the verification of a bucket has built its result, every      *)
(* member after the first has been compared once; the result is a group    *)
(* exactly when some comparison came back identical without error, and     *)
(* the group is the first member of the bucket followed by exactly those   *)
(* members, two or more in all.                                            *)
C30_GroupIsAnchorAndIdentical ==
    \A h \in DOMAIN scan.verifiers :
        scan.verifiers[h].pc \notin {"acquire", "range"} =>
           /\ scan.verifiers[h].files = scan.finalHashGroups[h]
           /\ DOMAIN scan.verifiers[h].comparisons = 2..Len(scan.verifiers[h].files)
           /\ \A i \in DOMAIN scan.verifiers[h].comparisons :
                 scan.verifiers[h].comparisons[i].runs = 1
           /\ (scan.verifiers[h].result = {}) = (Identical(h) = {})
           /\ \A r \in scan.verifiers[h].result :
                 /\ r.HashSum = h
                 /\ r.FileGuids[1] = scan.verifiers[h].files[1]
                 /\ Len(r.FileGuids) = 1 + Cardinality(Identical(h))
                 /\ Len(r.FileGuids) >= 2
                 /\ Range(Tail(r.FileGuids)) = {scan.verifiers[h].files[i] : i \in Identical(h)}

(* A bucket of three gave a group of two: one comparison failed, the other *)
(* came back identical.                                                    *)
C30_ErrorExcludesOne ==
    \E h \in DOMAIN scan.verifiers :
        /\ scan.verifiers[h].pc = "done"
        /\ Len(scan.verifiers[h].files) = 3
        /\ \E i \in DOMAIN scan.verifiers[h].comparisons : scan.verifiers[h].comparisons[i].err
        /\ \E r \in scan.verifiers[h].result : Len(r.FileGuids) = 2

-----------------------------------------------------------------------------
(* Properties of the hashing of a scan, checked under SpecRescan. *)

(* C31: a worker computes a hash only for a record that carries none, no   *)
(* record has its hash computed twice in one scan, and a scan that follows *)
(* scans in which no computation failed computes none.                     *)
C31_HashedOnceIfAbsent ==
    /\ \A w \in DOMAIN scan.workers :
          scan.workers[w].pc = "work" => ~files[scan.workers[w].job].Hash.Valid
    /\ \A g \in DOMAIN scan.hashed : scan.hashed[g] <= 1
    /\ (scan.scans >= 2 /\ ~scan.failed) => scan.hashed = <<>>

(* A second scan has returned a group from the stored hashes of the first. *)
C31_SecondScanFromStoredHashes ==
    /\ scan.scans = 2 /\ ~scan.failed /\ scan.pc = "returned"
    /\ scan.hashed = <<>>
    /\ results # {}
    /\ \A g \in Guids : Cardinality(SizeGroup(files[g].Size)) >= 2 => files[g].Hash.Valid

(* The records in the buckets of the running scan. *)
InBuckets == UNION {Range(scan.finalHashGroups[h]) : h \in DOMAIN scan.finalHashGroups}

(* C32: a record whose hash computation failed in the scan stays in the    *)
(* catalog without a hash, in memory and in its store row, in no bucket    *)
(* and in no group; when the scan has returned, it has returned without an *)
(* error and every other record of a size group of two or more carries a   *)
(* hash and stands in a bucket.                                            *)
C32_FailedHashExcludesRecord ==
    /\ \A g \in scan.errors :
          /\ g \in Guids /\ ~files[g].Hash.Valid
          /\ \A r \in dbFiles : r.Guid = g => ~r.Hash.Valid
          /\ g \notin InBuckets
          /\ \A i \in DOMAIN scan.results : g \notin Range(scan.results[i].FileGuids)
          /\ scan.pc = "returned" => \A r \in results : g \notin Range(r.FileGuids)
    /\ (scan.pc = "returned" /\ last.op = "Scan") =>
          /\ ~last.err
          /\ \A g \in Guids \ scan.errors :
                Cardinality(SizeGroup(files[g].Size)) >= 2 =>
                   files[g].Hash.Valid /\ g \in InBuckets

(* A scan has returned a group although the hash of one record of the same *)
(* size could not be computed.                                             *)
C32_OthersGroupedDespiteFailure ==
    /\ scan.pc = "returned" /\ last.op = "Scan"
    /\ \E g \in scan.errors : \E r \in results :
          \A m \in Range(r.FileGuids) : files[m].Size = files[g].Size

-----------------------------------------------------------------------------
(* Runs of "quickscan" (main.go, lines 62-70): the path /d is added and    *)
(* the index scanned, twice over, while a file changes and the store may   *)
(* fail once.                                                              *)
MaxQuickSteps == 4

InitQuickScan ==
    /\ fs \in InitDisks
    /\ files = [g \in {} |-> NoHash]
    /\ dbFiles = {}
    /\ dbDups = {}
    /\ config = Config(1, 0, FALSE)
    /\ results = {}
    /\ last = Done("Open", FALSE, 0, NoFault)
    /\ clock = 0
    /\ faults = MaxFaults
    /\ drift = MaxDrift
    /\ moves = 0
    /\ steps = MaxQuickSteps
    /\ scan = Idle(1)

NextQuickScan ==
    \/ \E p \in Locs, data \in Edits, mtime \in Mtimes :
          Uncounted(FsWrite(p, data, mtime))
    \/ Counted(AddPath(<<"/", "d">>, TRUE, <<>>))
    \/ /\ steps > 0
       /\ \E found \in ResultChoices(Buckets) :
             \E fault \in ScanFaults(found) : Counted(ScanForDuplicates(found, fault))

SpecQuickScan == InitQuickScan /\ [][NextQuickScan]_vars

-----------------------------------------------------------------------------
(* Frame of Update and of the scan. *)

(* C33: when Update returns no error, every record whose file was missing  *)
(* is gone from the map and the store, every record whose file drifted has *)
(* the size and time of the disk in both, and every other record and its   *)
(* row are as before.                                                      *)
C33_UpdateSettlesEveryRecord ==
    [][(last'.op = "Update" /\ ~last'.err) =>
          /\ \A g \in Missing :
                g \notin DOMAIN files' /\ \A r \in dbFiles' : r.Guid # g
          /\ \A g \in Drifted :
                /\ g \in DOMAIN files'
                /\ files'[g].Size = StatSize(files[g].Path)
                /\ files'[g].ModTime = StatModTime(files[g].Path)
                /\ \A r \in dbFiles' : r.Guid = g =>
                      /\ r.Size = StatSize(files[g].Path)
                      /\ r.ModTime = StatModTime(files[g].Path)
          /\ \A g \in Guids \ (Missing \cup Drifted) :
                /\ g \in DOMAIN files' /\ files'[g] = files[g]
                /\ {r \in dbFiles' : r.Guid = g} = {r \in dbFiles : r.Guid = g}]_vars

(* The guids of the groups the scan step returns. *)
Confirmed == UNION {Range(r.FileGuids) : r \in results'}

(* C34: a scan adds and removes no record and no row of files, and changes *)
(* of a record or a row nothing but the hash, and the hash only from       *)
(* absent to present; of the membership rows it leaves those of other      *)
(* guids as they are and writes only rows of members of returned groups.   *)
C34_ScanChangesHashesAndMembership ==
    [][last'.op = "Scan" =>
          /\ DOMAIN files' = Guids
          /\ \A g \in Guids :
                /\ [files'[g] EXCEPT !.Hash = files[g].Hash] = files[g]
                /\ files'[g].Hash # files[g].Hash =>
                      ~files[g].Hash.Valid /\ files'[g].Hash.Valid
          /\ {r.Guid : r \in dbFiles'} = {r.Guid : r \in dbFiles}
          /\ \A q \in dbFiles' : \E r \in dbFiles :
                /\ [q EXCEPT !.Hash = r.Hash] = r
                /\ q.Hash # r.Hash => ~r.Hash.Valid /\ q.Hash.Valid
          /\ \A d \in dbDups : d.guid \notin Confirmed => d \in dbDups'
          /\ \A d \in dbDups' \ dbDups : d.guid \in Confirmed]_vars

(* C35: the list a scan returns is well formed: every group has two        *)
(* members or more, all different and all guids of records of the index,   *)
(* and two groups share neither a member nor their hash.                   *)
C35_ResultsWellFormed ==
    [][last'.op = "Scan" =>
          /\ \A r \in results' :
                /\ Len(r.FileGuids) >= 2
                /\ \A i, j \in DOMAIN r.FileGuids : i # j => r.FileGuids[i] # r.FileGuids[j]
                /\ Range(r.FileGuids) \subseteq DOMAIN files'
          /\ \A r, q \in results' :
                r # q => /\ r.HashSum # q.HashSum
                         /\ Range(r.FileGuids) \cap Range(q.FileGuids) = {}]_vars

(* A scan has returned two groups. *)
C35_TwoGroupsReturned ==
    /\ last.op = "Scan"
    /\ Cardinality(results) = 2

-----------------------------------------------------------------------------
(* CalculateFileHash applied on its own (FileUtils.go, lines 18-24).  The  *)
(* size it is given is the Size of the record, a number of its own next to *)
(* the file it reads; it is drawn around SizeThreshold as (whole KiB,      *)
(* remaining bytes).  last holds the arguments and, once applied, the      *)
(* outcome.                                                                *)
HashSizesKiB == { 0, 1, SizeThresholdKiB - 1, SizeThresholdKiB, SizeThresholdKiB + 1 }
HashSizesRem == { 0, 1, KiB - 1 }

CalculateFileHashOfSize(filePath, kib, rem) ==
    IF ExceedsThreshold(kib, rem)
    THEN CalculateFileHashSHA256(filePath)
    ELSE CalculateFileHashMD5(filePath)

InitHash ==
    /\ fs \in { [p \in {PX} |-> File(data, 1)] : data \in Contents }
    /\ files = [g \in {} |-> NoHash]
    /\ dbFiles = {}
    /\ dbDups = {}
    /\ config = Config(1, 0, FALSE)
    /\ results = {}
    /\ last \in [op : {"Open"}, kib : HashSizesKiB, rem : HashSizesRem]
    /\ clock = 0
    /\ faults = 0
    /\ drift = 0
    /\ moves = 0
    /\ steps = 0
    /\ scan = Idle(1)

ApplyCalculateFileHash ==
    /\ last.op = "Open"
    /\ \E res \in {CalculateFileHashOfSize(PX, last.kib, last.rem)} :
          last' = [op |-> "CalculateFileHash", kib |-> last.kib, rem |-> last.rem,
                   hash |-> res.hash, err |-> res.err]
    /\ UNCHANGED <<fs, files, dbFiles, dbDups, config, results, clock, faults, drift,
                   moves, steps, scan>>

NextHash == ApplyCalculateFileHash

SpecHash == InitHash /\ [][NextHash]_vars

(* C36: the hash of a file of less than 2 GiB is an MD5 sum, the hash of a *)
(* file of 2 GiB or more, 2147483648 bytes included, a SHA-256 sum.        *)
C36_AlgorithmBySize ==
    (last.op = "CalculateFileHash" /\ ~last.err) =>
        /\ last.kib < SizeThresholdKiB => last.hash[1] = "md5"
        /\ last.kib >= SizeThresholdKiB => last.hash[1] = "sha256"

-----------------------------------------------------------------------------
(* CompareFilesBinary (FileUtils.go, lines 58-95): the two files are read  *)
(* chunk by chunk and the chunks compared.  The chunk of the source is     *)
(* 64 KiB; the files of this part are up to two chunks long, with a chunk  *)
(* scaled down to chunkSize bytes.                                         *)
chunkSize == 2
MaxFileLen == 2 * chunkSize
LongContents == SeqsUpTo(Bytes, MaxFileLen)

(* The call that fails, if one does: os.Open (round 0) or the Read of one  *)
(* round of the loop, on the first or the second file.                     *)
NoReadFault == [file |-> 0, round |-> 0]
ReadFault(file, round) == [file |-> file, round |-> round]
ReadFaults ==
    {NoReadFault} \cup
    { ReadFault(file, round) : file \in {1, 2}, round \in 0..(MaxFileLen \div chunkSize + 1) }

(* os.File.Read into a buffer of chunkSize bytes: the bytes that follow    *)
(* the offset, a chunk at most; no byte and io.EOF at the end of the file. *)
Read(data, offset, fails) ==
    IF fails THEN [n |-> 0, buf |-> <<>>, err |-> "error"]
    ELSE IF offset >= Len(data) THEN [n |-> 0, buf |-> <<>>, err |-> "EOF"]
    ELSE LET n == Min(chunkSize, Len(data) - offset)
         IN  [n |-> n, buf |-> SubSeq(data, offset + 1, offset + n), err |-> "nil"]

(* Chunks compared by their lengths alone. *)
SameLength(buf1, buf2) == Len(buf1) = Len(buf2)

(* bytes.Equal *)
bytesEqual(buf1, buf2) == buf1 = buf2

(* The loop of lines 75-94, from the offsets the two files have reached. *)
RECURSIVE CompareChunks(_, _, _, _, _, _)
CompareChunks(data1, data2, offset1, offset2, round, fail) ==
    LET r1 == Read(data1, offset1, fail = ReadFault(1, round))
        r2 == Read(data2, offset2, fail = ReadFault(2, round))
    IN  IF r1.err = "error" THEN [identical |-> FALSE, err |-> TRUE]
        ELSE IF r2.err = "error" THEN [identical |-> FALSE, err |-> TRUE]
        ELSE IF r1.n # r2.n THEN [identical |-> FALSE, err |-> FALSE]
        ELSE IF r1.err = "EOF" /\ r2.err = "EOF" THEN [identical |-> TRUE, err |-> FALSE]
        ELSE IF ~bytesEqual(r1.buf, r2.buf) THEN [identical |-> FALSE, err |-> FALSE]
        ELSE CompareChunks(data1, data2, offset1 + r1.n, offset2 + r2.n, round + 1, fail)

CompareFilesBinary(path1, path2, fail) ==
    IF ~FileExists(path1) \/ fail = ReadFault(1, 0) THEN [identical |-> FALSE, err |-> TRUE]
    ELSE IF ~FileExists(path2) \/ fail = ReadFault(2, 0) THEN [identical |-> FALSE, err |-> TRUE]
    ELSE CompareChunks(fs[Resolve(path1)].data, fs[Resolve(path2)].data, 0, 0, 1, fail)

InitCompare ==
    /\ fs \in { (PX :> File(a, 1)) @@ (PY :> File(b, 1)) : a, b \in LongContents }
    /\ files = [g \in {} |-> NoHash]
    /\ dbFiles = {}
    /\ dbDups = {}
    /\ config = Config(1, 0, FALSE)
    /\ results = {}
    /\ last = [op |-> "Open"]
    /\ clock = 0
    /\ faults = 0
    /\ drift = 0
    /\ moves = 0
    /\ steps = 0
    /\ scan = Idle(1)

ApplyCompareFilesBinary ==
    /\ last.op = "Open"
    /\ \E fail \in ReadFaults :
          \E res \in {CompareFilesBinary(PX, PY, fail)} :
             last' = [op |-> "CompareFilesBinary", fail |-> fail,
                      identical |-> res.identical, err |-> res.err]
    /\ UNCHANGED <<fs, files, dbFiles, dbDups, config, results, clock, faults, drift,
                   moves, steps, scan>>

NextCompare == ApplyCompareFilesBinary

SpecCompare == InitCompare /\ [][NextCompare]_vars

(* The contents of the two files are the same: one length, and the same    *)
(* byte at every position.                                                 *)
SameBytes ==
    LET a == fs[PX].data
        b == fs[PY].data
    IN  Len(a) = Len(b) /\ \A i \in 1..Len(a) : a[i] = b[i]

(* Rounds of the loop over two files that are the same: one for every      *)
(* chunk, whole or not, and the round that meets the end.                  *)
RoundsOfSame == (Len(fs[PX].data) + chunkSize - 1) \div chunkSize + 1

(* C37: the full comparison says "identical" exactly when the two files    *)
(* have one length and the same byte at every position, whatever the       *)
(* lengths are next to the chunk size; when opening or reading fails it    *)
(* returns the error and no verdict.                                       *)
C37_FullComparisonExact ==
    last.op = "CompareFilesBinary" =>
        /\ ~last.err => (last.identical <=> SameBytes)
        /\ last.err => ~last.identical
        /\ last.fail = NoReadFault => ~last.err
        /\ (last.fail # NoReadFault /\ last.fail.round <= 1) => last.err
        /\ (last.fail # NoReadFault /\ SameBytes /\ last.fail.round <= RoundsOfSame) => last.err

(* Two files of two chunks that differ in the first byte of the second     *)
(* chunk alone were told apart.                                            *)
C37_SecondChunkDiffers ==
    /\ last.op = "CompareFilesBinary"
    /\ ~last.err
    /\ ~last.identical
    /\ Len(fs[PX].data) = 2 * chunkSize
    /\ Len(fs[PY].data) = 2 * chunkSize
    /\ \A i \in 1..(2 * chunkSize) : (fs[PX].data[i] # fs[PY].data[i]) <=> (i = chunkSize + 1)

-----------------------------------------------------------------------------
(* compareFilesBinarySampleSize applied on its own (FileUtils.go, lines    *)
(* 97-169) to two files, with a sample size of one or more and every       *)
(* sequence of positions the generator can draw.                           *)
MaxSample == 2

InitSampled ==
    /\ fs \in { (PX :> File(a, 1)) @@ (PY :> File(b, 1)) : a, b \in Contents }
    /\ files = [g \in {} |-> NoHash]
    /\ dbFiles = {}
    /\ dbDups = {}
    /\ config \in { Config(1, sampleSize, FALSE) : sampleSize \in 1..MaxSample }
    /\ results = {}
    /\ last = [op |-> "Open"]
    /\ clock = 0
    /\ faults = 0
    /\ drift = 0
    /\ moves = 0
    /\ steps = 0
    /\ scan = Idle(1)

ApplyCompareSampled ==
    /\ last.op = "Open"
    /\ \E positions \in PositionChoices(StatSize(PX), config.BinaryCompareBytes) :
          \E res \in {compareFilesBinarySampleSize(PX, PY, config.BinaryCompareBytes, positions)} :
             last' = [op |-> "compareFilesBinarySampleSize", positions |-> positions,
                      identical |-> res.identical, err |-> res.err]
    /\ UNCHANGED <<fs, files, dbFiles, dbDups, config, results, clock, faults, drift,
                   moves, steps, scan>>

NextSampled == ApplyCompareSampled

SpecSampled == InitSampled /\ [][NextSampled]_vars

(* C38: with a sample size of one or more and two files of one size that   *)
(* is no larger than the sample size, the sampled comparison gives the     *)
(* verdict of the full comparison: a single differing byte is found        *)
(* whatever positions are drawn.                                           *)
C38_SmallFilesComparedInFull ==
    ( /\ last.op = "compareFilesBinarySampleSize"
      /\ ~last.err
      /\ config.BinaryCompareBytes > 0
      /\ StatSize(PX) = StatSize(PY)
      /\ StatSize(PX) <= config.BinaryCompareBytes )
    => last.identical = CompareFilesBinary(PX, PY, NoReadFault).identical

=============================================================================
